---- MODULE Spec2Model ----
(***************************************************************************)
(* A model of the load balancer's data plane: the account store and its    *)
(* ChangeLog replication (accounts.rs), the request filter with its        *)
(* fixed-window rate limiting and metrics sink (lb.rs, metric.rs), the     *)
(* routing configuration and its reloader (configuration.rs, lb.rs) and    *)
(* the usage tracker with its hourly files (usage.rs).                     *)
(*                                                                         *)
(* The specifications that share the module:                               *)
(*   SpecStore   the AccountStore under arbitrary calls of its methods     *)
(*   SpecRepl    the external database, the bootstrap and the delta loop   *)
(*   Spec        concurrent requests going through request_filter          *)
(*   SpecConfig  the routing config under reloads, and upstream selection  *)
(*   SpecUsage   usage records, the clock, the writer's loop and shutdown  *)
(*   SpecTracker the usage aggregator under record and drain calls         *)
(*   SpecMetrics the metrics sink under record_at calls                    *)
(*   SpecShutdown the three background loops around the shutdown signal    *)
(*   SpecAccountLimit requests limited by the account store's plans        *)
(*   SpecLock    the delta pass step by step under the store's RwLock      *)
(*   SpecApiKey  api-key tokens generated, parsed and verified             *)
(*   SpecProxy   admitted requests through upstream_peer and response_filter*)
(***************************************************************************)
EXTENDS Integers, Sequences, FiniteSets, TLC

VARIABLES
    store,          \* AccountStore (the value behind Arc<RwLock<AccountStore>>)
    lastOp,         \* SpecStore: the store method called last, its argument, the hash it found indexed
    db,             \* the external relational store: Plans, Accounts, APIKeys, ChangeLog
    dbHist,         \* history: dbHist[c] is the table content right after change c
    replPc,         \* position of load_initial / AccountDataService::start
    shutdown,       \* the watched shutdown boolean
    lastPass,       \* history: what the last step of the replicator was and saw
    synced,         \* history: a delta pass succeeded and nothing was written since
    reqs,           \* the requests in flight or finished, in order of arrival
    RATE_LIMITERS,  \* registry window_secs -> Rate estimator
    metrics,        \* Metrics.counts: api_key -> minute -> status -> count
    limits,         \* the Ratelimit provider: api key -> Limit
    now,            \* wall clock, seconds
    config,         \* the live routing Config behind Arc<RwLock<Config>>
    cfgPc,          \* position of ConfigReloader::start
    lastReload,     \* history: how the latest step ended, if it was a reload
    peer,           \* history: the latest step's upstream selection, if it was one
    data,           \* UsageTracker.data: UsageKey -> UsageRecord
    files,          \* the usage directory: file name -> Usage table
    last_flushed_hour, \* UsageWriter.last_flushed_hour
    usagePc,        \* position of UsageWriter::start, then of the tracker's drop
    usageReqs,      \* the requests that carry an API key, with their key context
    usageHist,      \* history: what was recorded, flushed and lost so far
    calls,          \* history: the record calls made on a sink since its last drain
    afterSignal,    \* history: the passes and reloads that ran after the shutdown signal
    issued,         \* api-key crate: a config, the key generated under it, what parse and verify said
    rw              \* the store's RwLock: the guards held, and the delta pass that holds the write guard

storeVars == <<store, lastOp>>
replVars  == <<db, dbHist, replPc, shutdown, lastPass, synced>>
pipeVars  == <<reqs, RATE_LIMITERS, metrics, limits, now>>
cfgVars   == <<config, cfgPc, lastReload, peer>>
usageVars == <<data, files, last_flushed_hour, usagePc, usageReqs, usageHist>>
histVars  == <<calls, afterSignal, issued, rw>>
vars      == <<store, lastOp, db, dbHist, replPc, shutdown, lastPass,
               synced, reqs, RATE_LIMITERS, metrics, limits, now,
               cfgVars, usageVars, histVars>>

(***************************************************************************)
(* Universes of identifiers.                                               *)
(***************************************************************************)
NumKeys    == 2
PlanIds    == {1, 2}
AccountIds == {1, 2}
KeyIds     == 1..NumKeys
Hashes     == {"h1", "h2"}
RpsLimits  == {3, 5}

Plans   == [plan_id : PlanIds, rps_limit : RpsLimits]
Accts   == [account_id : AccountIds, plan_id : PlanIds]
ApiKeys_ == [key_id : KeyIds, account_id : AccountIds,
             api_key_hash : Hashes, is_active : BOOLEAN]
NoKey   == [key_id |-> 0, account_id |-> 0, api_key_hash |-> "", is_active |-> FALSE]

(***************************************************************************)
(* HashMap helpers.  A map is a function whose domain is its key set; an   *)
(* Option is the empty set or a singleton.                                 *)
(***************************************************************************)
EmptyMap == [x \in {} |-> 0]

Put(m, k, v) == [x \in (DOMAIN m) \cup {k} |-> IF x = k THEN v ELSE m[x]]

Remove(m, k) == [x \in (DOMAIN m) \ {k} |-> m[x]]

Get(m, k) == IF k \in DOMAIN m THEN {m[k]} ELSE {}

(***************************************************************************)
(* AccountStore                                                            *)
(***************************************************************************)
EmptyStore ==
    [api_key_to_account |-> EmptyMap,
     api_key_to_key_id  |-> EmptyMap,
     key_id_to_hash     |-> EmptyMap,
     account_to_plan    |-> EmptyMap,
     plans              |-> EmptyMap,
     max_change_id      |-> 0]

get_plan_for_key(s, api_key_hash) ==
    IF api_key_hash \notin DOMAIN s.api_key_to_account THEN {}
    ELSE LET account_id == s.api_key_to_account[api_key_hash] IN
         IF account_id \notin DOMAIN s.account_to_plan THEN {}
         ELSE Get(s.plans, s.account_to_plan[account_id])

get_key_context(s, api_key_hash) ==
    IF api_key_hash \notin DOMAIN s.api_key_to_account THEN {}
    ELSE IF api_key_hash \notin DOMAIN s.api_key_to_key_id THEN {}
    ELSE LET account_id == s.api_key_to_account[api_key_hash] IN
         IF account_id \notin DOMAIN s.account_to_plan THEN {}
         ELSE {<<account_id, s.api_key_to_key_id[api_key_hash],
                 s.account_to_plan[account_id]>>}

set_max_change_id(s, change_id) == [s EXCEPT !.max_change_id = change_id]

upsert_plan(s, plan) == [s EXCEPT !.plans = Put(@, plan.plan_id, plan)]

delete_plan(s, plan_id) == [s EXCEPT !.plans = Remove(@, plan_id)]

upsert_account(s, account) ==
    [s EXCEPT !.account_to_plan = Put(@, account.account_id, account.plan_id)]

delete_account(s, account_id) ==
    [s EXCEPT !.account_to_plan = Remove(@, account_id)]

\* Mutant: the activity flag is ignored and the mappings are always installed.
upsert_api_key_install_ignoring_flag(s1, api_key) ==
    [s1 EXCEPT
        !.api_key_to_account = Put(@, api_key.api_key_hash, api_key.account_id),
        !.api_key_to_key_id  = Put(@, api_key.api_key_hash, api_key.key_id),
        !.key_id_to_hash     = Put(@, api_key.key_id, api_key.api_key_hash)]

\* The branch of upsert_api_key taken for the key's activity flag, applied to
\* the store s1 from which the key's previously indexed hash has been removed.
upsert_api_key_install(s1, api_key) ==
    IF api_key.is_active
    THEN [s1 EXCEPT
            !.api_key_to_account = Put(@, api_key.api_key_hash, api_key.account_id),
            !.api_key_to_key_id  = Put(@, api_key.api_key_hash, api_key.key_id),
            !.key_id_to_hash     = Put(@, api_key.key_id, api_key.api_key_hash)]
    ELSE [s1 EXCEPT !.key_id_to_hash = Remove(@, api_key.key_id)]

\* Mutant: the hash previously indexed for the key_id is not evicted.
upsert_api_key_keeping_old_hash(s, api_key) ==
    upsert_api_key_install(s, api_key)

\* Mutant: the hash previously indexed for the key_id is evicted after the
\* new mappings are installed instead of before.
upsert_api_key_evicting_last(s, api_key) ==
    LET s1 == upsert_api_key_install(s, api_key) IN
    IF api_key.key_id \in DOMAIN s.key_id_to_hash
    THEN LET old_hash == s.key_id_to_hash[api_key.key_id] IN
         [s1 EXCEPT !.api_key_to_account = Remove(@, old_hash),
                    !.api_key_to_key_id  = Remove(@, old_hash)]
    ELSE s1

upsert_api_key(s, api_key) ==
    LET s1 == IF api_key.key_id \in DOMAIN s.key_id_to_hash
              THEN LET old_hash == s.key_id_to_hash[api_key.key_id] IN
                   [s EXCEPT !.api_key_to_account = Remove(@, old_hash),
                             !.api_key_to_key_id  = Remove(@, old_hash)]
              ELSE s
    IN upsert_api_key_install(s1, api_key)

\* Mutant: only the reverse index entry is removed.
delete_api_key_reverse_only(s, key_id) ==
    [s EXCEPT !.key_id_to_hash = Remove(@, key_id)]

delete_api_key(s, key_id) ==
    IF key_id \in DOMAIN s.key_id_to_hash
    THEN LET hash == s.key_id_to_hash[key_id] IN
         [s EXCEPT !.key_id_to_hash     = Remove(@, key_id),
                   !.api_key_to_account = Remove(@, hash),
                   !.api_key_to_key_id  = Remove(@, hash)]
    ELSE s

(***************************************************************************)
(* SpecStore: any sequence of calls of the store's methods.                *)
(***************************************************************************)
IdleDb == [Plans |-> EmptyMap, Accounts |-> EmptyMap, APIKeys |-> EmptyMap,
           ChangeLog |-> << >>]

ReplIdle ==
    /\ db = IdleDb
    /\ dbHist = << >>
    /\ replPc = "idle"
    /\ shutdown = FALSE
    /\ lastPass = [kind |-> "none", from |-> 0, top |-> 0, applied |-> 0,
                  before |-> EmptyStore]
    /\ synced = FALSE

PipeIdle ==
    /\ reqs = << >>
    /\ RATE_LIMITERS = EmptyMap
    /\ metrics = EmptyMap
    /\ limits = EmptyMap
    /\ now = 0

NoConfig == [services |-> EmptyMap, backends |-> << >>]

NoReload == [outcome |-> "none", kept |-> TRUE]

NoPeer == [path |-> << >>, status |-> 0, addr |-> ""]

CfgIdle ==
    /\ config = NoConfig
    /\ cfgPc = "idle"
    /\ lastReload = NoReload
    /\ peer = NoPeer

NoStep == [kind |-> "none"]

NoUsageHist ==
    [admitted |-> 0, recorded |-> 0, late |-> 0, hours |-> {}, failed |-> FALSE,
     written |-> EmptyMap, start |-> 0, flushes |-> << >>, last |-> NoStep,
     bytes |-> 0, drained |-> [total_requests |-> 0, total_data_bytes |-> 0],
     handed |-> 0]

NoAfter == [passes |-> 0, reloads |-> 0]

\* History counters stop at 2: none, one, more than one.
OneMore(n) == IF n < 2 THEN n + 1 ELSE 2

\* Mutant: the top of the loop does not look at the shutdown flag.
loop_top_ignoring_signal(signal) == "waiting"

\* The top of a background loop: if *shutdown.borrow() { return; }
loop_top(signal) == IF signal THEN "stopped" ELSE "waiting"

\* No guard is held and no pass has run under the lock.
Unlocked ==
    [writer |-> FALSE, readers |-> {}, conn |-> IdleDb, next |-> 0, fail_at |-> 0,
     before |-> EmptyStore]

\* No key was generated: the api-key crate keeps no state of its own.
NoIssue == [pc |-> "idle"]

HistIdle ==
    /\ calls = EmptyMap
    /\ afterSignal = NoAfter
    /\ issued = NoIssue
    /\ rw = Unlocked

UsageIdle ==
    /\ data = EmptyMap
    /\ files = EmptyMap
    /\ last_flushed_hour = {}
    /\ usagePc = "idle"
    /\ usageReqs = << >>
    /\ usageHist = NoUsageHist

InitStore ==
    /\ store = EmptyStore
    /\ lastOp = [op |-> "new", key |-> NoKey, old |-> {}]
    /\ ReplIdle
    /\ PipeIdle
    /\ CfgIdle
    /\ UsageIdle
    /\ HistIdle

StoreUpsertPlan ==
    \E plan \in Plans :
        /\ store' = upsert_plan(store, plan)
        /\ lastOp' = [op |-> "upsert_plan", key |-> NoKey, old |-> {}]
        /\ UNCHANGED <<replVars, pipeVars, cfgVars, usageVars, histVars>>

StoreDeletePlan ==
    \E plan_id \in PlanIds :
        /\ store' = delete_plan(store, plan_id)
        /\ lastOp' = [op |-> "delete_plan", key |-> NoKey, old |-> {}]
        /\ UNCHANGED <<replVars, pipeVars, cfgVars, usageVars, histVars>>

StoreUpsertAccount ==
    \E account \in Accts :
        /\ store' = upsert_account(store, account)
        /\ lastOp' = [op |-> "upsert_account", key |-> NoKey, old |-> {}]
        /\ UNCHANGED <<replVars, pipeVars, cfgVars, usageVars, histVars>>

StoreDeleteAccount ==
    \E account_id \in AccountIds :
        /\ store' = delete_account(store, account_id)
        /\ lastOp' = [op |-> "delete_account", key |-> NoKey, old |-> {}]
        /\ UNCHANGED <<replVars, pipeVars, cfgVars, usageVars, histVars>>

StoreUpsertApiKey ==
    \E api_key \in ApiKeys_ :
        /\ store' = upsert_api_key(store, api_key)
        /\ lastOp' = [op |-> "upsert_api_key", key |-> api_key,
                      old |-> Get(store.key_id_to_hash, api_key.key_id)]
        /\ UNCHANGED <<replVars, pipeVars, cfgVars, usageVars, histVars>>

StoreDeleteApiKey ==
    \E key_id \in KeyIds :
        /\ store' = delete_api_key(store, key_id)
        /\ lastOp' = [op |-> "delete_api_key",
                      key |-> [NoKey EXCEPT !.key_id = key_id],
                      old |-> Get(store.key_id_to_hash, key_id)]
        /\ UNCHANGED <<replVars, pipeVars, cfgVars, usageVars, histVars>>

NextStore ==
    \/ StoreUpsertPlan
    \/ StoreDeletePlan
    \/ StoreUpsertAccount
    \/ StoreDeleteAccount
    \/ StoreUpsertApiKey
    \/ StoreDeleteApiKey

SpecStore == InitStore /\ [][NextStore]_vars

(***************************************************************************)
(* Claims about the store's methods (checked under SpecStore).             *)
(***************************************************************************)
\* The plan of an account as the store holds it: the lookups
\* account_to_plan and plans composed.
PlanOfAccount(s, account_id) ==
    IF account_id \in DOMAIN s.account_to_plan
    THEN Get(s.plans, s.account_to_plan[account_id])
    ELSE {}

\* After the last call: the hash is indexed in the forward maps under a key_id
\* other than the one just upserted.
HashHeldByOtherKey(s, api_key) ==
    /\ api_key.api_key_hash \in DOMAIN s.api_key_to_key_id
    /\ s.api_key_to_key_id[api_key.api_key_hash] # api_key.key_id

RoundTrip(s, api_key) ==
    (/\ get_plan_for_key(s, api_key.api_key_hash) # {}
     /\ get_plan_for_key(s, api_key.api_key_hash) = PlanOfAccount(s, api_key.account_id))
    <=> (api_key.is_active /\ PlanOfAccount(s, api_key.account_id) # {})

\* C4 as stated: in any store state, immediately after upsert_api_key(k),
\* get_plan_for_key(k.api_key_hash) returns the plan of account k.account_id
\* if and only if k.is_active and that account's plan exists in the store.
C4_RoundTripAnyState ==
    lastOp.op = "upsert_api_key" => RoundTrip(store, lastOp.key)

\* C4 amended: the round trip holds whenever, after upsert_api_key(k), the
\* hash k.api_key_hash is not indexed under a different key_id (an active k
\* always owns its hash after the call, so for active keys it holds in any
\* store state).
C4_RoundTrip ==
    (lastOp.op = "upsert_api_key" /\ ~HashHeldByOtherKey(store, lastOp.key))
        => RoundTrip(store, lastOp.key)

\* C4 witness: an active key was upserted over a store in which its key_id
\* was not the only one indexed, and its hash resolves to its account's plan.
C4_Witness ==
    /\ lastOp.op = "upsert_api_key"
    /\ lastOp.key.is_active
    /\ Cardinality(DOMAIN store.key_id_to_hash) = 2
    /\ get_plan_for_key(store, lastOp.key.api_key_hash) # {}
    /\ get_plan_for_key(store, lastOp.key.api_key_hash)
           = PlanOfAccount(store, lastOp.key.account_id)

minute_bucket(at) == (IF at < 0 THEN 0 ELSE at) \div 60

\* Mutant: the minute's map is started afresh by each record.
record_at_restarting_minute(m, api_key, status, at) ==
    LET minute     == minute_bucket(at)
        per_key    == IF api_key \in DOMAIN m THEN m[api_key] ELSE EmptyMap
        per_minute == IF minute \in DOMAIN per_key THEN per_key[minute] ELSE EmptyMap
        count      == IF status \in DOMAIN per_minute THEN per_minute[status] ELSE 0
    IN Put(m, api_key, Put(per_key, minute, Put(EmptyMap, status, count + 1)))

record_at(m, api_key, status, at) ==
    LET minute     == minute_bucket(at)
        per_key    == IF api_key \in DOMAIN m THEN m[api_key] ELSE EmptyMap
        per_minute == IF minute \in DOMAIN per_key THEN per_key[minute] ELSE EmptyMap
        count      == IF status \in DOMAIN per_minute THEN per_minute[status] ELSE 0
    IN Put(m, api_key, Put(per_key, minute, Put(per_minute, status, count + 1)))

snapshot(m, api_key) == IF api_key \in DOMAIN m THEN m[api_key] ELSE EmptyMap

(***************************************************************************)
(* Rate-limit engine: the registry of lb.rs and the fixed-window estimator *)
(* it holds per window length.                                             *)
(***************************************************************************)
MaxRequests == 3
MaxTime     == 2

API_KEY_HEADER  == "x-api-key"
MISSING_API_KEY == "<missing>"

ApiKeyStrings == {"k1", "k2"}

\* What the request carries under x-api-key: nothing, a value that is not
\* visible ASCII (to_str fails), or a key string.
HeaderValues ==
    {[kind |-> "absent", value |-> ""], [kind |-> "opaque", value |-> ""]}
        \cup {[kind |-> "text", value |-> k] : k \in ApiKeyStrings}

\* The limits a Ratelimit provider may hand out (quota, per_seconds).
LimitChoices ==
    {[quota |-> 0, per_seconds |-> 2],
     [quota |-> 1, per_seconds |-> 0],
     [quota |-> 2, per_seconds |-> 1]}

NoLimit == [quota |-> 0, per_seconds |-> 0]

limit_for_key(api_key) == limits[api_key]

Max(a, b) == IF a >= b THEN a ELSE b

\* Mutant: every call makes a new estimator for the window.
rate_for_window_fresh(registry, window_secs) ==
    Put(registry, window_secs, EmptyMap)

\* Mutant: the registry holds the estimator of the latest window length only.
rate_for_window_only(registry, window_secs) ==
    IF window_secs \in DOMAIN registry
    THEN [w \in {window_secs} |-> registry[w]]
    ELSE Put(EmptyMap, window_secs, EmptyMap)

\* The registry after rate_for_window(window_secs): the estimator is inserted
\* when the window length is new and kept otherwise.
rate_for_window(registry, window_secs) ==
    IF window_secs \in DOMAIN registry THEN registry
    ELSE Put(registry, window_secs, EmptyMap)

\* Mutant: a key's window never expires.
observe_never_expiring(rate, window_secs, key, events, t) ==
    IF key \in DOMAIN rate
    THEN Put(rate, key, [rate[key] EXCEPT !.count = @ + events])
    ELSE Put(rate, key, [count |-> events, window_start |-> t])

\* The estimator after observe(key, events) at time t: the key's counter
\* restarts when its window has expired.
observe(rate, window_secs, key, events, t) ==
    IF key \in DOMAIN rate /\ t - rate[key].window_start < window_secs
    THEN Put(rate, key, [rate[key] EXCEPT !.count = @ + events])
    ELSE Put(rate, key, [count |-> events, window_start |-> t])

(***************************************************************************)
(* Decimal rendering of an integer (to_string).                            *)
(***************************************************************************)
Digit(d) ==
    CASE d = 0 -> "0" [] d = 1 -> "1" [] d = 2 -> "2" [] d = 3 -> "3"
      [] d = 4 -> "4" [] d = 5 -> "5" [] d = 6 -> "6" [] d = 7 -> "7"
      [] d = 8 -> "8" [] d = 9 -> "9"

RECURSIVE NatToString(_)
NatToString(n) ==
    IF n < 10 THEN Digit(n) ELSE NatToString(n \div 10) \o Digit(n % 10)

to_string(n) == IF n < 0 THEN "-" \o NatToString(0 - n) ELSE NatToString(n)

(***************************************************************************)
(* Request pipeline: RateLimitedLb::request_filter (lb.rs).                *)
(***************************************************************************)
NewRequest(header) ==
    [pc          |-> "start",
     header      |-> header,
     ctx         |-> {},          \* CTX = Option<String>
     limit       |-> NoLimit,
     window_secs |-> 0,
     seen        |-> 0,
     window      |-> 0,           \* history: start of the window observe counted in
     observes    |-> 0,           \* history: observe calls made for the request
     status      |-> 0,
     headers     |-> EmptyMap,
     keepalive   |-> TRUE,
     recs        |-> << >>]       \* history: metrics records made for the request

\* Mutant: the missing-key answer carries the wrong status.
Unauthorized_as_forbidden(r) ==
    [r EXCEPT !.pc = "responded",
              !.status = 403,
              !.headers = Put(EmptyMap, "WWW-Authenticate", "API key missing"),
              !.keepalive = FALSE,
              !.recs = Append(@, [api_key |-> MISSING_API_KEY, status |-> 401])]

\* The request after the None arm of the header match: the 401 answer.
Unauthorized(r) ==
    [r EXCEPT !.pc = "responded",
              !.status = 401,
              !.headers = Put(EmptyMap, "WWW-Authenticate", "API key missing"),
              !.keepalive = FALSE,
              !.recs = Append(@, [api_key |-> MISSING_API_KEY, status |-> 401])]

\* headers.get(API_KEY_HEADER).and_then(|v| v.to_str().ok())
HeaderKey(header) == IF header.kind = "text" THEN {header.value} ELSE {}

\* request_filter up to the limit lookup: the header is extracted; without a
\* usable value the request is answered 401.
RequestFilterHeader ==
    \E header \in HeaderValues :
        /\ Len(reqs) < MaxRequests
        /\ IF HeaderKey(header) # {}
           THEN LET api_key == CHOOSE k \in HeaderKey(header) : TRUE IN
                /\ reqs' = Append(reqs,
                      [NewRequest(header) EXCEPT
                          !.pc = "observe",
                          !.ctx = {api_key},
                          !.limit = limit_for_key(api_key),
                          !.window_secs = Max(limit_for_key(api_key).per_seconds, 1)])
                /\ UNCHANGED metrics
           ELSE /\ metrics' = record_at(metrics, MISSING_API_KEY, 401, now)
                /\ reqs' = Append(reqs, Unauthorized(NewRequest(header)))
        /\ UNCHANGED <<RATE_LIMITERS, limits, now, storeVars, replVars, cfgVars, usageVars, histVars>>

\* Mutant: the admission test is off by one.
OverQuota_off_by_one(seen, limit) == seen >= limit.quota

OverQuota(seen, limit) == seen > limit.quota

\* Mutant: Retry-After carries limit.per_seconds, not the clamped window.
TooManyRequestsHeaders_raw_window(limit, window_secs) ==
    Put(Put(Put(EmptyMap,
        "Retry-After", to_string(limit.per_seconds)),
        "X-RateLimit-Limit", to_string(limit.quota)),
        "X-RateLimit-Remaining", "0")

TooManyRequestsHeaders(limit, window_secs) ==
    Put(Put(Put(EmptyMap,
        "Retry-After", to_string(window_secs)),
        "X-RateLimit-Limit", to_string(limit.quota)),
        "X-RateLimit-Remaining", "0")

\* The rest of request_filter: rate_for_window(window_secs),
\* rate.observe(&api_key, 1) and the admission test.  Over quota the request
\* is answered 429; otherwise the filter returns Ok(false) and the proxy goes
\* on to the upstream.
RequestFilterLimit(i) ==
    /\ reqs[i].pc = "observe"
    /\ LET r        == reqs[i]
           api_key  == CHOOSE k \in r.ctx : TRUE
           registry == rate_for_window(RATE_LIMITERS, r.window_secs)
           rate     == observe(registry[r.window_secs], r.window_secs, api_key, 1, now)
           seen     == rate[api_key].count
           r1       == [r EXCEPT !.seen = seen,
                                 !.window = rate[api_key].window_start,
                                 !.observes = @ + 1]
       IN /\ RATE_LIMITERS' = Put(registry, r.window_secs, rate)
          /\ IF OverQuota(seen, r.limit)
             THEN /\ metrics' = record_at(metrics, api_key, 429, now)
                  /\ reqs' = [reqs EXCEPT ![i] =
                               [r1 EXCEPT !.pc = "responded",
                                          !.status = 429,
                                          !.headers = TooManyRequestsHeaders(r.limit, r.window_secs),
                                          !.keepalive = FALSE,
                                          !.recs = Append(@, [api_key |-> api_key, status |-> 429])]]
             ELSE /\ reqs' = [reqs EXCEPT ![i] = [r1 EXCEPT !.pc = "upstream"]]
                  /\ UNCHANGED metrics
    /\ UNCHANGED <<limits, now, storeVars, replVars, cfgVars, usageVars, histVars>>

\* A second of wall-clock time passes.
Tick ==
    /\ now < MaxTime
    /\ now' = now + 1
    /\ UNCHANGED <<reqs, RATE_LIMITERS, metrics, limits, storeVars, replVars, cfgVars, usageVars, histVars>>

Init ==
    /\ store = EmptyStore
    /\ lastOp = [op |-> "new", key |-> NoKey, old |-> {}]
    /\ ReplIdle
    /\ reqs = << >>
    /\ RATE_LIMITERS = EmptyMap
    /\ metrics = EmptyMap
    /\ limits \in [ApiKeyStrings -> LimitChoices]
    /\ now = 0
    /\ CfgIdle
    /\ UsageIdle
    /\ HistIdle

Next ==
    \/ RequestFilterHeader
    \/ \E i \in 1..Len(reqs) : RequestFilterLimit(i)
    \/ Tick

Spec == Init /\ [][Next]_vars

(***************************************************************************)
(* Claims about request_filter (checked under Spec).                       *)
(***************************************************************************)
Requests == 1..Len(reqs)

Finished(i) == reqs[i].pc \in {"responded", "upstream"}

Forwarded(i) == reqs[i].pc = "upstream"

RECURSIVE SumOver(_, _)
SumOver(f, S) ==
    IF S = {} THEN 0
    ELSE LET x == CHOOSE y \in S : TRUE IN f[x] + SumOver(f, S \ {x})

\* The count the sink holds for (api_key, status), over all minute buckets.
Recorded(api_key, status) ==
    LET snap == snapshot(metrics, api_key)
        per  == [minute \in DOMAIN snap |->
                    IF status \in DOMAIN snap[minute] THEN snap[minute][status] ELSE 0]
    IN SumOver(per, DOMAIN snap)

Decimal == <<"0", "1", "2", "3", "4", "5", "6", "7", "8", "9">>

\* C1: for a key whose limit is quota q per window, a request is admitted
\* exactly when its observe(key, 1) result is <= q; at most q requests of one
\* window of one estimator are forwarded, and every other request that
\* observed in that window is answered 429.
C1_AdmittedIffWithinQuota ==
    /\ \A i \in Requests :
          (Finished(i) /\ reqs[i].ctx # {}) =>
              LET k == CHOOSE x \in reqs[i].ctx : TRUE IN
              /\ reqs[i].observes = 1
              /\ Forwarded(i) <=> reqs[i].seen <= limits[k].quota
              /\ ~Forwarded(i) => reqs[i].status = 429
    /\ \A k \in ApiKeyStrings : \A i \in Requests :
          Cardinality({j \in Requests :
                          /\ reqs[j].ctx = {k}
                          /\ Forwarded(j)
                          /\ reqs[j].window_secs = reqs[i].window_secs
                          /\ reqs[j].window = reqs[i].window}) <= limits[k].quota

\* C1 witness: a key with quota 2 sent three requests inside one window; two
\* were admitted and the third was answered 429.
C1_Witness ==
    \E i, j, l \in Requests :
        /\ i # j
        /\ reqs[i].ctx = reqs[j].ctx /\ reqs[j].ctx = reqs[l].ctx
        /\ reqs[i].limit.quota = 2
        /\ reqs[i].window = reqs[j].window /\ reqs[j].window = reqs[l].window
        /\ Forwarded(i) /\ Forwarded(j)
        /\ reqs[l].pc = "responded" /\ reqs[l].status = 429

\* C2: a request without a usable x-api-key header is answered 401 with
\* WWW-Authenticate: API key missing, makes exactly one metrics record
\* (<missing>, 401), performs no observe and is never forwarded.
C2_MissingKeyUnauthorized ==
    /\ \A i \in Requests :
          reqs[i].header.kind # "text" =>
              /\ reqs[i].pc = "responded"
              /\ reqs[i].status = 401
              /\ DOMAIN reqs[i].headers = {"WWW-Authenticate"}
              /\ reqs[i].headers["WWW-Authenticate"] = "API key missing"
              /\ reqs[i].recs = <<[api_key |-> "<missing>", status |-> 401]>>
              /\ reqs[i].observes = 0
              /\ reqs[i].ctx = {}
    /\ Recorded("<missing>", 401)
          = Cardinality({i \in Requests : reqs[i].header.kind # "text"})

\* C2 witness: a request that carried no x-api-key header has been answered
\* after a request with a key was admitted.
C2_Witness ==
    \E i, j \in Requests :
        /\ reqs[i].header.kind = "absent"
        /\ reqs[i].pc = "responded"
        /\ Forwarded(j)

\* C3: every over-quota request (observe result > quota) is answered 429 with
\* Retry-After = max(1, limit.per_seconds), X-RateLimit-Limit = the quota and
\* X-RateLimit-Remaining = 0, makes exactly one metrics record (api_key, 429)
\* and is never forwarded.
C3_OverQuotaTooManyRequests ==
    /\ \A i \in Requests :
          (reqs[i].observes > 0 /\ reqs[i].seen > reqs[i].limit.quota) =>
              LET k == CHOOSE x \in reqs[i].ctx : TRUE
                  w == IF limits[k].per_seconds >= 1 THEN limits[k].per_seconds ELSE 1
              IN
              /\ reqs[i].pc = "responded"
              /\ reqs[i].status = 429
              /\ DOMAIN reqs[i].headers =
                    {"Retry-After", "X-RateLimit-Limit", "X-RateLimit-Remaining"}
              /\ reqs[i].headers["Retry-After"] = Decimal[w + 1]
              /\ reqs[i].headers["X-RateLimit-Limit"] = Decimal[limits[k].quota + 1]
              /\ reqs[i].headers["X-RateLimit-Remaining"] = "0"
              /\ reqs[i].recs = <<[api_key |-> k, status |-> 429]>>
    /\ \A k \in ApiKeyStrings :
          Recorded(k, 429)
             = Cardinality({i \in Requests :
                               /\ reqs[i].ctx = {k}
                               /\ reqs[i].observes > 0
                               /\ reqs[i].seen > reqs[i].limit.quota})

\* C3 witness: a request of a key whose limit has per_seconds = 0 was answered
\* 429, and so was a request of a key with a longer window.
C3_Witness ==
    \E i, j \in Requests :
        /\ reqs[i].status = 429 /\ reqs[i].limit.per_seconds = 0
        /\ reqs[j].status = 429 /\ reqs[j].limit.per_seconds = 2

\* The requests that observed in the window of request i: same key, same
\* estimator, same window.
SameWindow(i) ==
    {j \in Requests :
        /\ reqs[j].observes > 0
        /\ reqs[j].ctx = reqs[i].ctx
        /\ reqs[j].window_secs = reqs[i].window_secs
        /\ reqs[j].window = reqs[i].window}

\* C32: the observe(key, 1) calls of one key inside one window of one
\* estimator return 1, 2, 3, ...: each result counts the call itself and the
\* earlier calls of the window, so each is greater than the one before.
C32_ObserveCountsUp ==
    \A i \in Requests :
        reqs[i].observes > 0 =>
            /\ {reqs[j].seen : j \in SameWindow(i)} = 1..Cardinality(SameWindow(i))
            /\ \A j \in SameWindow(i) : j # i => reqs[j].seen # reqs[i].seen

C32_Witness ==
    \E i \in Requests :
        /\ reqs[i].observes > 0
        /\ reqs[i].seen = 3
        /\ now = 1
        /\ reqs[i].window = 0

\* In this step request i makes its observe call.
ObserveStep(i) ==
    /\ reqs[i].pc = "observe"
    /\ reqs'[i].pc # "observe"

\* The key's window in the estimator of window_secs has expired, or the key
\* has none.
Expired(registry, window_secs, key, t) ==
    \/ window_secs \notin DOMAIN registry
    \/ key \notin DOMAIN registry[window_secs]
    \/ t - registry[window_secs][key].window_start >= window_secs

\* An observe call that finds the key's window expired returns 1 and opens
\* a window at the time of the call.
RestartsWhenExpired ==
    \A i \in Requests :
        (ObserveStep(i) /\ Expired(RATE_LIMITERS, reqs[i].window_secs,
                                  CHOOSE k \in reqs[i].ctx : TRUE, now))
            => /\ reqs'[i].seen = 1
               /\ reqs'[i].window = now

\* A later window of a key admits no more than the quota, whatever an earlier
\* window of the key admitted.
LaterWindowWithinQuota ==
    \A i, j \in Requests :
        (/\ reqs[i].observes > 0 /\ reqs[j].observes > 0
         /\ reqs[i].ctx = reqs[j].ctx
         /\ reqs[i].window_secs = reqs[j].window_secs
         /\ reqs[i].window < reqs[j].window)
            => Cardinality({l \in SameWindow(j) : Forwarded(l)})
                  <= Max(reqs[j].limit.quota, 0)

RegistryHoldsWindowsUsed ==
    DOMAIN RATE_LIMITERS = {reqs[i].window_secs : i \in {j \in Requests : reqs[j].observes > 0}}

\* An estimator stays in the registry, and its counters change only by the
\* observe call of a request of its window length, which finds the counters
\* the earlier requests of that window length left.
RegistryKeepsEstimators ==
    \A w \in DOMAIN RATE_LIMITERS :
        /\ w \in DOMAIN RATE_LIMITERS'
        /\ RATE_LIMITERS'[w] # RATE_LIMITERS[w] =>
              \E i \in Requests :
                  /\ ObserveStep(i)
                  /\ reqs[i].window_secs = w
                  /\ RATE_LIMITERS'[w]
                        = observe(RATE_LIMITERS[w], w, CHOOSE k \in reqs[i].ctx : TRUE, 1, now)

\* C34: rate_for_window(w) hands every caller with the same w the estimator
\* registered for w and callers with different w different estimators; an
\* estimator once registered is never replaced or removed.
C34_OneEstimatorPerWindow ==
    []RegistryHoldsWindowsUsed /\ [][RegistryKeepsEstimators]_vars

\* Two estimators are registered; one of them has counted two requests of
\* one key in one window, the second finding the count the first left.
C34_Witness ==
    /\ Cardinality(DOMAIN RATE_LIMITERS) = 2
    /\ \E i, j \in Requests :
          /\ i # j
          /\ reqs[i].observes > 0 /\ reqs[j].observes > 0
          /\ reqs[i].window_secs = reqs[j].window_secs
          /\ reqs[i].ctx = reqs[j].ctx
          /\ reqs[i].seen = 1 /\ reqs[j].seen = 2
          /\ \E k \in reqs[i].ctx :
                RATE_LIMITERS[reqs[i].window_secs][k].count = 2

(***************************************************************************)
(* The external relational store (Plans, Accounts, APIKeys, ChangeLog) as  *)
(* the schema and triggers of accounts.rs' test database define it.        *)
(***************************************************************************)
MaxChanges == 3

TableNames == {"Plans", "Accounts", "APIKeys"}

Tables(conn) ==
    [Plans |-> conn.Plans, Accounts |-> conn.Accounts, APIKeys |-> conn.APIKeys]

\* The rows create_test_db leaves behind, cut to one plan, one account and one
\* active key; its triggers logged one INSERT per row.
InitialDb ==
    [Plans     |-> Put(EmptyMap, 1, [plan_id |-> 1, rps_limit |-> 3]),
     Accounts  |-> Put(EmptyMap, 1, [account_id |-> 1, plan_id |-> 1]),
     APIKeys   |-> Put(EmptyMap, 1, [key_id |-> 1, account_id |-> 1,
                                     api_key_hash |-> "h1", is_active |-> TRUE]),
     ChangeLog |-> <<[change_id |-> 1, table_name |-> "Plans",
                      record_id |-> 1, operation |-> "INSERT"],
                     [change_id |-> 2, table_name |-> "Accounts",
                      record_id |-> 1, operation |-> "INSERT"],
                     [change_id |-> 3, table_name |-> "APIKeys",
                      record_id |-> 1, operation |-> "INSERT"]>>]

InitialHist ==
    <<[Plans |-> InitialDb.Plans, Accounts |-> EmptyMap, APIKeys |-> EmptyMap],
      [Plans |-> InitialDb.Plans, Accounts |-> InitialDb.Accounts, APIKeys |-> EmptyMap],
      Tables(InitialDb)>>

\* AUTOINCREMENT: one more than the largest id the table ever held.
NextId(conn, table_name) ==
    LET used == {conn.ChangeLog[i].record_id : i \in
                    {j \in 1..Len(conn.ChangeLog) :
                        /\ conn.ChangeLog[j].table_name = table_name
                        /\ conn.ChangeLog[j].operation = "INSERT"}}
    IN IF used = {} THEN 1 ELSE 1 + (CHOOSE m \in used : \A u \in used : u <= m)

\* api_key_hash TEXT UNIQUE NOT NULL: no other row carries the hash.
HashFree(conn, key_id, hash) ==
    \A k \in DOMAIN conn.APIKeys :
        k # key_id => conn.APIKeys[k].api_key_hash # hash

\* What is remembered of the latest delta pass; forgotten at the next write.
NoPass == [kind |-> "none", from |-> 0, top |-> 0, applied |-> 0, before |-> EmptyStore]

\* A committed write: the row change and the ChangeLog row its trigger adds.
\* Writes are followed until the replicator has exited.
Commit(tables, table_name, record_id, operation) ==
    /\ Len(db.ChangeLog) < Len(InitialDb.ChangeLog) + MaxChanges
    /\ replPc # "stopped"
    /\ db' = [Plans |-> tables.Plans, Accounts |-> tables.Accounts,
              APIKeys |-> tables.APIKeys,
              ChangeLog |-> Append(db.ChangeLog,
                  [change_id |-> Len(db.ChangeLog) + 1, table_name |-> table_name,
                   record_id |-> record_id, operation |-> operation])]
    /\ dbHist' = Append(dbHist, tables)
    /\ synced' = FALSE
    /\ lastPass' = NoPass
    /\ UNCHANGED <<store, lastOp, replPc, shutdown, pipeVars, cfgVars, usageVars, histVars>>

\* A new plan is created at the top rate; ExtUpdatePlan changes it afterwards.
ExtInsertPlan ==
    \E rps \in {r \in RpsLimits : \A q \in RpsLimits : q <= r} :
        LET id == NextId(db, "Plans") IN
        /\ id \in PlanIds
        /\ Commit([Tables(db) EXCEPT !.Plans = Put(@, id, [plan_id |-> id, rps_limit |-> rps])],
                  "Plans", id, "INSERT")

ExtUpdatePlan ==
    \E id \in DOMAIN db.Plans : \E rps \in RpsLimits :
        /\ rps # db.Plans[id].rps_limit
        /\ Commit([Tables(db) EXCEPT !.Plans = Put(@, id, [plan_id |-> id, rps_limit |-> rps])],
                  "Plans", id, "UPDATE")

ExtDeletePlan ==
    \E id \in DOMAIN db.Plans :
        Commit([Tables(db) EXCEPT !.Plans = Remove(@, id)], "Plans", id, "DELETE")

ExtInsertAccount ==
    \E plan_id \in PlanIds :
        LET id == NextId(db, "Accounts") IN
        /\ id \in AccountIds
        /\ Commit([Tables(db) EXCEPT
                      !.Accounts = Put(@, id, [account_id |-> id, plan_id |-> plan_id])],
                  "Accounts", id, "INSERT")

ExtUpdateAccount ==
    \E id \in DOMAIN db.Accounts : \E plan_id \in PlanIds :
        /\ plan_id # db.Accounts[id].plan_id
        /\ Commit([Tables(db) EXCEPT
                      !.Accounts = Put(@, id, [account_id |-> id, plan_id |-> plan_id])],
                  "Accounts", id, "UPDATE")

ExtDeleteAccount ==
    \E id \in DOMAIN db.Accounts :
        Commit([Tables(db) EXCEPT !.Accounts = Remove(@, id)], "Accounts", id, "DELETE")

\* A new key is issued active; ExtUpdateKey switches it off afterwards.
ExtInsertKey ==
    \E account_id \in AccountIds, hash \in Hashes, active \in {TRUE} :
        LET id == NextId(db, "APIKeys") IN
        /\ id \in KeyIds
        /\ HashFree(db, id, hash)
        /\ Commit([Tables(db) EXCEPT
                      !.APIKeys = Put(@, id, [key_id |-> id, account_id |-> account_id,
                                              api_key_hash |-> hash, is_active |-> active])],
                  "APIKeys", id, "INSERT")

\* A key is rotated (new hash) or switched on or off, one of the two per write.
ExtUpdateKey ==
    \E id \in DOMAIN db.APIKeys : \E hash \in Hashes, active \in BOOLEAN :
        /\ (hash # db.APIKeys[id].api_key_hash) # (active # db.APIKeys[id].is_active)
        /\ HashFree(db, id, hash)
        /\ Commit([Tables(db) EXCEPT
                      !.APIKeys = Put(@, id, [db.APIKeys[id] EXCEPT
                                                 !.api_key_hash = hash,
                                                 !.is_active = active])],
                  "APIKeys", id, "UPDATE")

ExtDeleteKey ==
    \E id \in DOMAIN db.APIKeys :
        Commit([Tables(db) EXCEPT !.APIKeys = Remove(@, id)], "APIKeys", id, "DELETE")

\* A ChangeLog row that names a table the replicator does not know.
ExtLogOtherTable ==
    /\ Len(db.ChangeLog) < Len(InitialDb.ChangeLog) + MaxChanges
    /\ replPc # "stopped"
    /\ db' = [db EXCEPT !.ChangeLog = Append(@,
                  [change_id |-> Len(db.ChangeLog) + 1, table_name |-> "Other",
                   record_id |-> 1, operation |-> "INSERT"])]
    /\ dbHist' = Append(dbHist, Tables(db))
    /\ synced' = FALSE
    /\ lastPass' = NoPass
    /\ UNCHANGED <<store, lastOp, replPc, shutdown, pipeVars, cfgVars, usageVars, histVars>>

(***************************************************************************)
(* AccountLoader (accounts.rs): load_initial and load_delta.               *)
(***************************************************************************)
RECURSIVE UpsertAll(_, _, _, _)
\* for row in rows { store.upsert_*(row?) }, for the rows of one table.
UpsertAll(s, rows, ids, table_name) ==
    IF ids = {} THEN s
    ELSE LET id == CHOOSE i \in ids : \A j \in ids : i <= j
             s1 == CASE table_name = "Plans"    -> upsert_plan(s, rows[id])
                      [] table_name = "Accounts" -> upsert_account(s, rows[id])
                      [] table_name = "APIKeys"  -> upsert_api_key(s, rows[id])
         IN UpsertAll(s1, rows, ids \ {id}, table_name)

\* SELECT COALESCE(MAX(change_id), 0) FROM ChangeLog
MaxChangeId(conn) ==
    IF Len(conn.ChangeLog) = 0 THEN 0 ELSE conn.ChangeLog[Len(conn.ChangeLog)].change_id

fetch_plan(conn, plan_id) == Get(conn.Plans, plan_id)

fetch_account(conn, account_id) == Get(conn.Accounts, account_id)

fetch_api_key(conn, key_id) == Get(conn.APIKeys, key_id)

\* Mutant: the ("Accounts", _) arm is missing, so account upserts fall
\* through to the unknown-table arm.
apply_entry_without_accounts_arm(s, conn, entry) ==
    CASE entry.table_name = "Plans" /\ entry.operation = "DELETE" ->
            delete_plan(s, entry.record_id)
      [] entry.table_name = "Plans" /\ entry.operation # "DELETE" ->
            (IF fetch_plan(conn, entry.record_id) # {}
             THEN upsert_plan(s, CHOOSE r \in fetch_plan(conn, entry.record_id) : TRUE)
             ELSE s)
      [] entry.table_name = "Accounts" /\ entry.operation = "DELETE" ->
            delete_account(s, entry.record_id)
      [] entry.table_name = "APIKeys" /\ entry.operation = "DELETE" ->
            delete_api_key(s, entry.record_id)
      [] entry.table_name = "APIKeys" /\ entry.operation # "DELETE" ->
            (IF fetch_api_key(conn, entry.record_id) # {}
             THEN upsert_api_key(s, CHOOSE r \in fetch_api_key(conn, entry.record_id) : TRUE)
             ELSE s)
      [] OTHER -> s

\* The match on (table_name, operation) in load_delta's loop body.
apply_entry(s, conn, entry) ==
    CASE entry.table_name = "Plans" /\ entry.operation = "DELETE" ->
            delete_plan(s, entry.record_id)
      [] entry.table_name = "Plans" /\ entry.operation # "DELETE" ->
            (IF fetch_plan(conn, entry.record_id) # {}
             THEN upsert_plan(s, CHOOSE r \in fetch_plan(conn, entry.record_id) : TRUE)
             ELSE s)
      [] entry.table_name = "Accounts" /\ entry.operation = "DELETE" ->
            delete_account(s, entry.record_id)
      [] entry.table_name = "Accounts" /\ entry.operation # "DELETE" ->
            (IF fetch_account(conn, entry.record_id) # {}
             THEN upsert_account(s, CHOOSE r \in fetch_account(conn, entry.record_id) : TRUE)
             ELSE s)
      [] entry.table_name = "APIKeys" /\ entry.operation = "DELETE" ->
            delete_api_key(s, entry.record_id)
      [] entry.table_name = "APIKeys" /\ entry.operation # "DELETE" ->
            (IF fetch_api_key(conn, entry.record_id) # {}
             THEN upsert_api_key(s, CHOOSE r \in fetch_api_key(conn, entry.record_id) : TRUE)
             ELSE s)
      [] OTHER -> s

\* SELECT ... FROM ChangeLog WHERE change_id > ? ORDER BY change_id
DeltaEntries(conn, last_change_id) ==
    SelectSeq(conn.ChangeLog, LAMBDA e : e.change_id > last_change_id)

RECURSIVE apply_entries(_, _, _, _)
\* The store after the loop has gone through the first n entries.
apply_entries(s, conn, entries, n) ==
    IF n = 0 THEN s
    ELSE apply_entry(apply_entries(s, conn, entries, n - 1), conn, entries[n])

\* Mutant: the cursor is stored as each entry is read, so a failed pass keeps
\* the ids it got through.
load_delta_advancing_early(s, conn, fail_at) ==
    LET last_change_id == s.max_change_id
        entries        == DeltaEntries(conn, last_change_id)
        n              == IF fail_at = 0 THEN Len(entries) ELSE fail_at - 1
        applied        == apply_entries(s, conn, entries, n)
    IN [store  |-> IF n > 0 THEN set_max_change_id(applied, entries[n].change_id)
                   ELSE applied,
        result |-> IF fail_at = 0 THEN "ok" ELSE "err"]

\* Mutant: the cursor advances to the last entry that changed the store
\* ("highest id applied"), not to the last entry processed.
load_delta_highest_applied(s, conn, fail_at) ==
    LET last_change_id == s.max_change_id
        entries        == DeltaEntries(conn, last_change_id)
        n              == IF fail_at = 0 THEN Len(entries) ELSE fail_at - 1
        applied        == apply_entries(s, conn, entries, n)
        changing       == {i \in 1..n :
                             apply_entries(s, conn, entries, i)
                                # apply_entries(s, conn, entries, i - 1)}
        top            == IF changing = {} THEN last_change_id
                          ELSE entries[CHOOSE i \in changing :
                                          \A j \in changing : j <= i].change_id
    IN [store  |-> IF fail_at = 0 /\ top > last_change_id
                   THEN set_max_change_id(applied, top) ELSE applied,
        result |-> IF fail_at = 0 THEN "ok" ELSE "err"]

\* Mutant: max_processed_id starts at 0 and is stored after every pass.
load_delta_cursor_from_zero(s, conn, fail_at) ==
    LET last_change_id   == s.max_change_id
        entries          == DeltaEntries(conn, last_change_id)
        n                == IF fail_at = 0 THEN Len(entries) ELSE fail_at - 1
        applied          == apply_entries(s, conn, entries, n)
        max_processed_id == IF n = 0 THEN 0 ELSE entries[n].change_id
    IN [store  |-> IF fail_at = 0
                   THEN set_max_change_id(applied, max_processed_id)
                   ELSE applied,
        result |-> IF fail_at = 0 THEN "ok" ELSE "err"]

\* load_delta on the store s against the database as the connection sees it.
\* fail_at = 0: no read fails.  fail_at = j > 0: the j-th entry's read or
\* single-row fetch fails (j = 1 also stands for a failed open or prepare),
\* after the entries before it were applied.
load_delta(s, conn, fail_at) ==
    LET last_change_id   == s.max_change_id
        entries          == DeltaEntries(conn, last_change_id)
        n                == IF fail_at = 0 THEN Len(entries) ELSE fail_at - 1
        applied          == apply_entries(s, conn, entries, n)
        max_processed_id == IF n = 0 THEN last_change_id ELSE entries[n].change_id
    IN [store  |-> IF fail_at = 0 /\ max_processed_id > last_change_id
                   THEN set_max_change_id(applied, max_processed_id)
                   ELSE applied,
        result |-> IF fail_at = 0 THEN "ok" ELSE "err"]

(***************************************************************************)
(* SpecRepl: bootstrap (AccountRatelimit::from_db -> load_initial), then   *)
(* AccountDataService::start, against a database that keeps changing.      *)
(***************************************************************************)
InitRepl ==
    /\ store = EmptyStore
    /\ lastOp = [op |-> "new", key |-> NoKey, old |-> {}]
    /\ db = InitialDb
    /\ dbHist = InitialHist
    /\ replPc = "load_plans"
    /\ shutdown = FALSE
    /\ lastPass = NoPass
    /\ synced = FALSE
    /\ PipeIdle
    /\ CfgIdle
    /\ UsageIdle
    /\ HistIdle

\* load_initial, first query: every row of Plans.
LoadInitialPlans ==
    /\ replPc = "load_plans"
    /\ store' = UpsertAll(store, db.Plans, DOMAIN db.Plans, "Plans")
    /\ replPc' = "load_accounts"
    /\ UNCHANGED <<lastOp, db, dbHist, shutdown, lastPass, synced, pipeVars, cfgVars, usageVars, histVars>>

\* load_initial, second query: every row of Accounts.
LoadInitialAccounts ==
    /\ replPc = "load_accounts"
    /\ store' = UpsertAll(store, db.Accounts, DOMAIN db.Accounts, "Accounts")
    /\ replPc' = "load_keys"
    /\ UNCHANGED <<lastOp, db, dbHist, shutdown, lastPass, synced, pipeVars, cfgVars, usageVars, histVars>>

\* load_initial, third query: every row of APIKeys.
LoadInitialKeys ==
    /\ replPc = "load_keys"
    /\ store' = UpsertAll(store, db.APIKeys, DOMAIN db.APIKeys, "APIKeys")
    /\ replPc' = "load_max"
    /\ UNCHANGED <<lastOp, db, dbHist, shutdown, lastPass, synced, pipeVars, cfgVars, usageVars, histVars>>

\* load_initial, last query: the ChangeLog maximum, 0 when the query fails
\* (unwrap_or(0)).  The store is then shared and the service waits.
LoadInitialMax ==
    /\ replPc = "load_max"
    /\ \E query_ok \in BOOLEAN :
          LET max_change_id == IF query_ok THEN MaxChangeId(db) ELSE 0 IN
          store' = set_max_change_id(store, max_change_id)
    /\ replPc' = "waiting"
    /\ UNCHANGED <<lastOp, db, dbHist, shutdown, lastPass, synced, pipeVars, cfgVars, usageVars, histVars>>

\* One turn of the service loop after the sleep: the store is write-locked,
\* load_delta runs, an error is logged, and the loop checks the shutdown flag.
DeltaPass ==
    /\ replPc = "waiting"
    /\ \E fail_at \in 0..MaxChanges + 3 :
       LET entries == DeltaEntries(db, store.max_change_id)
           out     == load_delta(store, db, fail_at)
       IN /\ fail_at <= Max(1, Len(entries))
          /\ store' = out.store
          /\ lastPass' = [kind    |-> IF out.result = "ok" THEN "ok" ELSE "failed",
                          from    |-> store.max_change_id,
                          top     |-> MaxChangeId(db),
                          applied |-> IF fail_at = 0 THEN Len(entries) ELSE fail_at - 1,
                          before  |-> store]
          /\ synced' = (out.result = "ok")
    /\ replPc' = loop_top(shutdown)
    /\ afterSignal' = IF shutdown THEN [afterSignal EXCEPT !.passes = OneMore(@)]
                      ELSE afterSignal
    /\ UNCHANGED <<lastOp, db, dbHist, shutdown, pipeVars, cfgVars, usageVars, calls, issued, rw>>

\* The service sees the shutdown signal (at the top of the loop or in select).
ReplicatorExit ==
    /\ replPc = "waiting"
    /\ shutdown
    /\ replPc' = "stopped"
    /\ UNCHANGED <<store, lastOp, db, dbHist, shutdown, lastPass, synced, pipeVars, cfgVars, usageVars, histVars>>

SignalShutdown ==
    /\ ~shutdown
    /\ replPc \in {"waiting"}
    /\ shutdown' = TRUE
    /\ UNCHANGED <<store, lastOp, db, dbHist, replPc, lastPass, synced, pipeVars, cfgVars, usageVars, histVars>>

NextRepl ==
    \/ ExtInsertPlan
    \/ ExtUpdatePlan
    \/ ExtDeletePlan
    \/ ExtInsertAccount
    \/ ExtUpdateAccount
    \/ ExtDeleteAccount
    \/ ExtInsertKey
    \/ ExtUpdateKey
    \/ ExtDeleteKey
    \/ ExtLogOtherTable
    \/ LoadInitialPlans
    \/ LoadInitialAccounts
    \/ LoadInitialKeys
    \/ LoadInitialMax
    \/ DeltaPass
    \/ ReplicatorExit
    \/ SignalShutdown

SpecRepl == InitRepl /\ [][NextRepl]_vars

(***************************************************************************)
(* Replication claims.                                                     *)
(***************************************************************************)
\* The store is shared with readers once load_initial has returned.
Observable == replPc \in {"waiting", "stopped"}

\* The plan the external store gives an API key hash: the plan of the account
\* of the active APIKeys row carrying the hash, if all three rows exist.
ExternalPlan(conn, hash) ==
    LET ks == {k \in DOMAIN conn.APIKeys :
                  conn.APIKeys[k].is_active /\ conn.APIKeys[k].api_key_hash = hash}
    IN IF ks = {} THEN {}
       ELSE LET account_id == conn.APIKeys[CHOOSE k \in ks : TRUE].account_id IN
            IF account_id \notin DOMAIN conn.Accounts THEN {}
            ELSE Get(conn.Plans, conn.Accounts[account_id].plan_id)

\* C6 (as stated): once a delta pass has succeeded after the last external
\* write, every hash resolves in the store exactly as the external store has
\* it, whenever the writes were committed (bootstrap reads included).
C6_EventualConsistency ==
    (Observable /\ synced) =>
        \A hash \in Hashes : get_plan_for_key(store, hash) = ExternalPlan(db, hash)

\* The tables after the change numbered c; no rows before the first change.
TablesAt(c) ==
    IF c = 0 THEN [Plans |-> EmptyMap, Accounts |-> EmptyMap, APIKeys |-> EmptyMap]
    ELSE dbHist[c]

\* The store maps that hold exactly the given tables.
StoreImage(tables) ==
    LET active == {k \in DOMAIN tables.APIKeys : tables.APIKeys[k].is_active}
        hashes == {tables.APIKeys[k].api_key_hash : k \in active}
        holder(h) == CHOOSE k \in active : tables.APIKeys[k].api_key_hash = h
    IN [api_key_to_account |-> [h \in hashes |-> tables.APIKeys[holder(h)].account_id],
        api_key_to_key_id  |-> [h \in hashes |-> holder(h)],
        key_id_to_hash     |-> [k \in active |-> tables.APIKeys[k].api_key_hash],
        account_to_plan    |-> [a \in DOMAIN tables.Accounts |-> tables.Accounts[a].plan_id],
        plans              |-> tables.Plans,
        max_change_id      |-> 0]

\* C7 (as stated): every store state a reader can observe equals the
\* external tables as of some change c no later than the cursor.
C7_StoreIsChangeLogPrefix ==
    Observable =>
        \E c \in 0..store.max_change_id :
            set_max_change_id(store, 0) = StoreImage(TablesAt(c))

\* The latest pass read exactly three entries: the INSERT of plan p, of
\* account a on that plan and of the active key k of that account, all new
\* to the store the pass started from.
ThreeInserts(p, a, k) ==
    /\ lastPass.kind = "ok"
    /\ lastPass.top = lastPass.from + 3
    /\ db.ChangeLog[lastPass.from + 1] =
          [change_id |-> lastPass.from + 1, table_name |-> "Plans",
           record_id |-> p, operation |-> "INSERT"]
    /\ db.ChangeLog[lastPass.from + 2] =
          [change_id |-> lastPass.from + 2, table_name |-> "Accounts",
           record_id |-> a, operation |-> "INSERT"]
    /\ db.ChangeLog[lastPass.from + 3] =
          [change_id |-> lastPass.from + 3, table_name |-> "APIKeys",
           record_id |-> k, operation |-> "INSERT"]
    /\ p \in DOMAIN db.Plans /\ p \notin DOMAIN lastPass.before.plans
    /\ a \in DOMAIN db.Accounts /\ a \notin DOMAIN lastPass.before.account_to_plan
    /\ db.Accounts[a].plan_id = p
    /\ k \in DOMAIN db.APIKeys /\ k \notin DOMAIN lastPass.before.key_id_to_hash
    /\ db.APIKeys[k].account_id = a
    /\ db.APIKeys[k].is_active
    /\ db.APIKeys[k].api_key_hash \notin DOMAIN lastPass.before.api_key_to_account

\* C8: after a successful pass over the three INSERT entries of a new plan,
\* account and active key, the new hash resolves to the new plan, the cursor
\* is the highest change_id, and every hash that resolved before the pass
\* still resolves to the same plan.
C8_DeltaLoadsNewRows ==
    \A p \in PlanIds, a \in AccountIds, k \in KeyIds :
        ThreeInserts(p, a, k) =>
            /\ get_plan_for_key(store, db.APIKeys[k].api_key_hash) = {db.Plans[p]}
            /\ store.max_change_id = MaxChangeId(db)
            /\ \A hash \in Hashes :
                  get_plan_for_key(lastPass.before, hash) # {} =>
                      get_plan_for_key(store, hash)
                          = get_plan_for_key(lastPass.before, hash)

C8_Witness ==
    /\ \E p \in PlanIds, a \in AccountIds, k \in KeyIds :
          /\ ThreeInserts(p, a, k)
          /\ get_plan_for_key(store, db.APIKeys[k].api_key_hash) = {db.Plans[p]}
    /\ \E hash \in Hashes : get_plan_for_key(lastPass.before, hash) # {}

\* C9: a pass that fails leaves the cursor where it was and the loop
\* running, so the next pass reads again every entry the failed pass read,
\* the ones it had already applied included.
C9_FailedPassKeepsCursor ==
    lastPass.kind = "failed" =>
        /\ store.max_change_id = lastPass.from
        /\ shutdown \/ replPc = "waiting"
        /\ \A i \in 1..Len(db.ChangeLog) :
              db.ChangeLog[i].change_id > lastPass.from =>
                  \E j \in 1..Len(DeltaEntries(db, store.max_change_id)) :
                      DeltaEntries(db, store.max_change_id)[j] = db.ChangeLog[i]

C9_Witness ==
    /\ lastPass.kind = "failed"
    /\ lastPass.applied > 0
    /\ set_max_change_id(store, 0) # set_max_change_id(lastPass.before, 0)
    /\ replPc = "waiting"
    /\ Len(DeltaEntries(db, store.max_change_id)) > lastPass.applied

\* The entry is an INSERT or UPDATE whose row is no longer in its table.
RowGone(conn, entry) ==
    /\ entry.operation \in {"INSERT", "UPDATE"}
    /\ \/ entry.table_name = "Plans" /\ fetch_plan(conn, entry.record_id) = {}
       \/ entry.table_name = "Accounts" /\ fetch_account(conn, entry.record_id) = {}
       \/ entry.table_name = "APIKeys" /\ fetch_api_key(conn, entry.record_id) = {}

\* The ChangeLog entries a pass starting at the cursor `from` reads.
Returned(conn, from) ==
    {i \in 1..Len(conn.ChangeLog) : conn.ChangeLog[i].change_id > from}

\* C10: after a successful pass the cursor is the highest change_id the pass
\* read (the old cursor when it read none); an INSERT/UPDATE entry whose row
\* is gone and an entry of an unknown table leave the store as it is.
C10_CursorIsHighestRead ==
    /\ lastPass.kind = "ok" =>
          store.max_change_id =
              IF Returned(db, lastPass.from) = {} THEN lastPass.from
              ELSE CHOOSE c \in {db.ChangeLog[i].change_id : i \in Returned(db, lastPass.from)} :
                      \A i \in Returned(db, lastPass.from) : db.ChangeLog[i].change_id <= c
    /\ Observable =>
          \A i \in 1..Len(db.ChangeLog) :
              (RowGone(db, db.ChangeLog[i]) \/ db.ChangeLog[i].table_name \notin TableNames)
                  => apply_entry(store, db, db.ChangeLog[i]) = store

\* A successful pass whose last entry names an unknown table and which also
\* read an INSERT of a row deleted since.
C10_Witness ==
    /\ lastPass.kind = "ok"
    /\ lastPass.top > lastPass.from
    /\ db.ChangeLog[lastPass.top].table_name \notin TableNames
    /\ \E i \in Returned(db, lastPass.from) : RowGone(db, db.ChangeLog[i])
    /\ store.max_change_id = lastPass.top

(***************************************************************************)
(* Idempotence of replication (checked over the store states of SpecStore).*)
(***************************************************************************)
\* A database holding the one given row (none when rows is empty) and the
\* ChangeLog entry of its INSERT.
InsertEntry(table_name, record_id) ==
    [change_id |-> 1, table_name |-> table_name,
     record_id |-> record_id, operation |-> "INSERT"]

RowDb(table_name, record_id, rows) ==
    [Plans     |-> IF table_name = "Plans" /\ rows # {}
                   THEN Put(EmptyMap, record_id, CHOOSE r \in rows : TRUE) ELSE EmptyMap,
     Accounts  |-> IF table_name = "Accounts" /\ rows # {}
                   THEN Put(EmptyMap, record_id, CHOOSE r \in rows : TRUE) ELSE EmptyMap,
     APIKeys   |-> IF table_name = "APIKeys" /\ rows # {}
                   THEN Put(EmptyMap, record_id, CHOOSE r \in rows : TRUE) ELSE EmptyMap,
     ChangeLog |-> <<InsertEntry(table_name, record_id)>>]

\* The rows an INSERT entry of the table for record_id can find: none, or
\* any row carrying that id.
RowsFor(table_name, record_id) ==
    {{}} \cup
    CASE table_name = "Plans"    -> {{r} : r \in {p \in Plans : p.plan_id = record_id}}
      [] table_name = "Accounts" -> {{r} : r \in {a \in Accts : a.account_id = record_id}}
      [] table_name = "APIKeys"  -> {{r} : r \in {k \in ApiKeys_ : k.key_id = record_id}}

IdsOf(table_name) ==
    CASE table_name = "Plans"    -> PlanIds
      [] table_name = "Accounts" -> AccountIds
      [] table_name = "APIKeys"  -> KeyIds

Once(s, table_name, record_id, rows) ==
    apply_entry(s, RowDb(table_name, record_id, rows), InsertEntry(table_name, record_id))

\* C11: in any store state, applying an INSERT ChangeLog entry of Plans,
\* Accounts or APIKeys twice against the same external row gives the same
\* store as applying it once.
C11_InsertIdempotent ==
    \A table_name \in TableNames :
        \A record_id \in IdsOf(table_name) :
            \A rows \in RowsFor(table_name, record_id) :
                Once(Once(store, table_name, record_id, rows), table_name, record_id, rows)
                    = Once(store, table_name, record_id, rows)

\* A store in which an INSERT entry rotates an indexed key to another hash
\* that a different key_id holds: the first application changes the store.
C11_Witness ==
    \E k \in ApiKeys_ :
        /\ k.is_active
        /\ k.key_id \in DOMAIN store.key_id_to_hash
        /\ store.key_id_to_hash[k.key_id] # k.api_key_hash
        /\ k.api_key_hash \in DOMAIN store.api_key_to_key_id
        /\ Once(store, "APIKeys", k.key_id, {k}) # store
        /\ Once(Once(store, "APIKeys", k.key_id, {k}), "APIKeys", k.key_id, {k})
              = Once(store, "APIKeys", k.key_id, {k})

(***************************************************************************)
(* Routing configuration (configuration.rs) and upstream selection         *)
(* (lb.rs, upstream_peer).                                                 *)
(***************************************************************************)
MaxBackends == 2

\* Requests taken through the proxy in SpecProxy.
MaxProxied == 2

ServiceNames == {"a", "b"}

\* Paths are sequences of characters, so that starts_with is a prefix test.
ServicePaths == {<<"/", "a">>, <<"/", "a", "b">>}

RequestPaths == {<<"/", "o">>, <<"/", "a", "x">>, <<"/", "a", "b">>}

\* enum Backend: Basic { ip, port } and Hetzner { labels, port }.
Backends ==
    {[type |-> "basic", ip |-> "10.0.0.1", port |-> 80],
     [type |-> "hetzner", labels |-> << >>, port |-> 8099]}

BackendConfigs == [service : ServiceNames, backend : Backends]

Configs ==
    [services : UNION {[S -> ServicePaths] : S \in SUBSET ServiceNames},
     backends : UNION {[1..n -> BackendConfigs] : n \in 0..MaxBackends}]

Ok == [err |-> "none", name |-> ""]

\* Mutant: the second loop, over the defined services, is missing.
validate_backends_only(cfg) ==
    LET undefined == {i \in 1..Len(cfg.backends) :
                         cfg.backends[i].service \notin DOMAIN cfg.services}
    IN IF undefined # {}
       THEN {[err |-> "UndefinedService",
              name |-> cfg.backends[CHOOSE i \in undefined :
                                       \A j \in undefined : i <= j].service]}
       ELSE {Ok}

\* Mutant: the second loop accepts the config when some service is used.
validate_some_service_used(cfg) ==
    LET undefined == {i \in 1..Len(cfg.backends) :
                         cfg.backends[i].service \notin DOMAIN cfg.services}
        used_services == {cfg.backends[i].service : i \in 1..Len(cfg.backends)}
        unused == {service \in DOMAIN cfg.services : service \notin used_services}
    IN IF undefined # {}
       THEN {[err |-> "UndefinedService",
              name |-> cfg.backends[CHOOSE i \in undefined :
                                       \A j \in undefined : i <= j].service]}
       ELSE IF unused # {} /\ used_services = {}
       THEN {[err |-> "UnusedService", name |-> service] : service \in unused}
       ELSE {Ok}

\* Config::validate.  The result is a set: the services are the keys of a
\* HashMap, whose iteration order decides which unused service is reported.
validate(cfg) ==
    LET undefined == {i \in 1..Len(cfg.backends) :
                         cfg.backends[i].service \notin DOMAIN cfg.services}
        used_services == {cfg.backends[i].service : i \in 1..Len(cfg.backends)}
        unused == {service \in DOMAIN cfg.services : service \notin used_services}
    IN IF undefined # {}
       THEN {[err |-> "UndefinedService",
              name |-> cfg.backends[CHOOSE i \in undefined :
                                       \A j \in undefined : i <= j].service]}
       ELSE IF unused # {}
       THEN {[err |-> "UnusedService", name |-> service] : service \in unused}
       ELSE {Ok}

\* What the reloader can find at its path: nothing readable, text that does
\* not deserialize into a Config, or the YAML of a Config.
FileContents ==
    {[kind |-> "unreadable"], [kind |-> "garbage"]}
        \cup {[kind |-> "yaml", config |-> c] : c \in Configs}

\* Mutant: the parsed config is installed without being validated.
reload_without_validate(live, content) ==
    IF content.kind = "unreadable" THEN [config |-> live, outcome |-> "read_error"]
    ELSE IF content.kind = "garbage" THEN [config |-> live, outcome |-> "parse_error"]
    ELSE [config |-> content.config,
          outcome |-> IF validate(content.config) # {Ok} THEN "invalid" ELSE "ok"]

\* The match in ConfigReloader::start: read_to_string, from_str, validate.
reload(live, content) ==
    IF content.kind = "unreadable" THEN [config |-> live, outcome |-> "read_error"]
    ELSE IF content.kind = "garbage" THEN [config |-> live, outcome |-> "parse_error"]
    ELSE IF validate(content.config) # {Ok} THEN [config |-> live, outcome |-> "invalid"]
    ELSE [config |-> content.config, outcome |-> "ok"]

starts_with(path, prefix) ==
    /\ Len(prefix) <= Len(path)
    /\ SubSeq(path, 1, Len(prefix)) = prefix

\* Mutant: a basic backend of the service is preferred to a reserved one.
find_backend_preferring_basic(cfg, service_name) ==
    LET basic == {i \in 1..Len(cfg.backends) :
                     /\ cfg.backends[i].service = service_name
                     /\ cfg.backends[i].backend.type = "basic"}
        any   == {i \in 1..Len(cfg.backends) : cfg.backends[i].service = service_name}
        pick  == IF basic # {} THEN basic ELSE any
    IN IF pick = {} THEN {}
       ELSE {cfg.backends[CHOOSE i \in pick : \A j \in pick : i <= j]}

RECURSIVE find_from(_, _, _)
find_from(backends, service_name, i) ==
    IF i > Len(backends) THEN {}
    ELSE IF backends[i].service = service_name THEN {backends[i]}
    ELSE find_from(backends, service_name, i + 1)

\* config.backends.iter().find(|b| b.service == service_name)
find_backend(cfg, service_name) == find_from(cfg.backends, service_name, 1)

\* The result of upstream_peer for one matched service.
peer_for(cfg, path, service_name) ==
    LET found == find_backend(cfg, service_name) IN
    IF found = {} THEN [path |-> path, status |-> 503, addr |-> ""]
    ELSE LET backend == (CHOOSE b \in found : TRUE).backend IN
         IF backend.type = "basic"
         THEN [path |-> path, status |-> 0,
               addr |-> backend.ip \o ":" \o to_string(backend.port)]
         ELSE [path |-> path, status |-> 501, addr |-> ""]

\* upstream_peer.  The result is a set: the loop over config.services takes
\* the first service, in the HashMap's iteration order, whose path matches.
upstream_peer(cfg, path) ==
    LET matching == {service_name \in DOMAIN cfg.services :
                        starts_with(path, cfg.services[service_name])}
    IN IF matching = {} THEN {[path |-> path, status |-> 404, addr |-> ""]}
       ELSE {peer_for(cfg, path, service_name) : service_name \in matching}

(***************************************************************************)
(* SpecConfig: the routing config under reloads, with requests selecting   *)
(* their upstream.                                                         *)
(***************************************************************************)
\* Server::bootstrap refuses to start unless the file is read, parsed and valid.
InitConfig ==
    /\ store = EmptyStore
    /\ lastOp = [op |-> "new", key |-> NoKey, old |-> {}]
    /\ ReplIdle
    /\ PipeIdle
    /\ UsageIdle
    /\ HistIdle
    /\ config \in {c \in Configs : validate(c) = {Ok}}
    /\ cfgPc = "waiting"
    /\ lastReload = NoReload
    /\ peer = NoPeer

\* One turn of ConfigReloader::start after the sleep.
ReloadTick ==
    /\ cfgPc = "waiting"
    /\ \E content \in FileContents :
          LET out == reload(config, content) IN
          /\ config' = out.config
          /\ lastReload' = [outcome |-> out.outcome, kept |-> out.config = config]
    /\ cfgPc' = loop_top(shutdown)
    /\ peer' = NoPeer
    /\ afterSignal' = IF shutdown THEN [afterSignal EXCEPT !.reloads = OneMore(@)]
                      ELSE afterSignal
    /\ UNCHANGED <<storeVars, replVars, pipeVars, usageVars, calls, issued, rw>>

\* The reloader sees the shutdown signal (at the top of the loop or in select).
ReloaderExit ==
    /\ cfgPc = "waiting"
    /\ shutdown
    /\ cfgPc' = "stopped"
    /\ UNCHANGED <<storeVars, replVars, pipeVars, usageVars, histVars, config, lastReload, peer>>

ReloaderShutdown ==
    /\ cfgPc = "waiting"
    /\ ~shutdown
    /\ shutdown' = TRUE
    /\ UNCHANGED <<storeVars, db, dbHist, replPc, lastPass, synced, pipeVars,
                   usageVars, histVars, cfgVars>>

\* A request reaches upstream_peer and reads the live config.
UpstreamPeer ==
    /\ cfgPc # "idle"
    /\ \E path \in RequestPaths : \E result \in upstream_peer(config, path) :
          peer' = result
    /\ lastReload' = NoReload
    /\ UNCHANGED <<storeVars, replVars, pipeVars, usageVars, histVars, config, cfgPc>>

NextConfig ==
    \/ ReloadTick
    \/ ReloaderExit
    \/ ReloaderShutdown
    \/ UpstreamPeer

SpecConfig == InitConfig /\ [][NextConfig]_vars

\* C12: validate accepts a config exactly when every backend's service is a
\* key of services and every key of services is named by a backend;
\* otherwise it reports a backend's undefined service or a defined service
\* without backend.  Checked on every config the reloader reads and on the
\* live one.
C12_Holds(cfg) ==
    LET referenced == {cfg.backends[i].service : i \in 1..Len(cfg.backends)}
        defined    == DOMAIN cfg.services
        well       == referenced \subseteq defined /\ defined \subseteq referenced
    IN /\ (validate(cfg) = {Ok}) = well
       /\ \A r \in validate(cfg) :
             \/ r = Ok /\ well
             \/ r.err = "UndefinedService" /\ r.name \in referenced \ defined
             \/ r.err = "UnusedService" /\ r.name \in defined \ referenced

C12_ValidateIffConsistent ==
    cfgPc # "idle" => \A cfg \in Configs : C12_Holds(cfg)

\* A reload was rejected for an unused service while another config with an
\* undefined service exists.
C12_Witness ==
    /\ lastReload.outcome = "invalid"
    /\ \E cfg \in Configs :
          /\ \E r \in validate(cfg) : r.err = "UnusedService"
          /\ C12_Holds(cfg)
    /\ \E cfg \in Configs :
          /\ \E r \in validate(cfg) : r.err = "UndefinedService"
          /\ "a" \in DOMAIN cfg.services /\ "b" \notin DOMAIN cfg.services
          /\ C12_Holds(cfg)

\* C13: a reload that ends in a read error, a parse error or a validation
\* failure leaves the live config as it was, and the live config passes
\* validate in every state.
C13_ReloadKeepsValidConfig ==
    /\ lastReload.outcome \in {"read_error", "parse_error", "invalid"} => lastReload.kept
    /\ cfgPc # "idle" => validate(config) = {Ok}

C13_Witness ==
    /\ lastReload.outcome = "invalid"
    /\ lastReload.kept
    /\ config.backends # << >>
    /\ validate(config) = {Ok}

\* C14: upstream selection against the live config.  No matching service
\* gives 404; otherwise the result is that of a matching service, decided
\* by the first backend in list order that names it: ip:port for a basic
\* one, 501 for a reserved one, whatever follows it in the list.
FirstIndexFor(cfg, service_name) ==
    {i \in 1..Len(cfg.backends) :
        /\ cfg.backends[i].service = service_name
        /\ \A j \in 1..(i - 1) : cfg.backends[j].service # service_name}

C14_Expected(cfg, path, result) ==
    LET matching == {n \in DOMAIN cfg.services :
                        /\ Len(cfg.services[n]) <= Len(path)
                        /\ \A k \in 1..Len(cfg.services[n]) : path[k] = cfg.services[n][k]}
    IN IF matching = {} THEN result.status = 404
       ELSE \E n \in matching : \E i \in FirstIndexFor(cfg, n) :
               \/ /\ cfg.backends[i].backend.type = "basic"
                  /\ result.status = 0
                  /\ result.addr = "10.0.0.1:80"
               \/ /\ cfg.backends[i].backend.type = "hetzner"
                  /\ result.status = 501

C14_UpstreamSelection ==
    /\ cfgPc # "idle" =>
          \A path \in RequestPaths : \A result \in upstream_peer(config, path) :
              C14_Expected(config, path, result)
    /\ peer # NoPeer => C14_Expected(config, peer.path, peer)

\* The reserved backend comes first and a basic one for the same service
\* follows: the selection is 501.
C14_Witness ==
    /\ peer.status = 501
    /\ Len(config.backends) = 2
    /\ config.backends[1].backend.type = "hetzner"
    /\ config.backends[2].backend.type = "basic"
    /\ config.backends[1].service = config.backends[2].service

\* The services of cfg that some request path can select.
Selectable(cfg) ==
    {service_name \in DOMAIN cfg.services :
        \E path \in RequestPaths : starts_with(path, cfg.services[service_name])}

\* C39: the live config has passed validate, at startup or at a reload, so
\* every service that upstream selection can match has a backend and no
\* selection ends in 503 "No backend found for service".
C39_NoBackendUnreachable ==
    cfgPc # "idle" =>
        /\ \A service_name \in Selectable(config) :
              find_backend(config, service_name) # {}
        /\ \A path \in RequestPaths : \A result \in upstream_peer(config, path) :
              result.status # 503
        /\ peer.status # 503

\* A request was routed to a backend under a config with two services, while
\* configs that validate rejects leave a selectable service without backend.
C39_Witness ==
    /\ peer.status = 0
    /\ peer.addr # ""
    /\ Cardinality(Selectable(config)) = 2
    /\ \E cfg \in Configs :
          /\ validate(cfg) # {Ok}
          /\ \E path \in RequestPaths : \E result \in upstream_peer(cfg, path) :
                result.status = 503

(***************************************************************************)
(* Usage tracking (usage.rs): the in-memory aggregator, the hourly files   *)
(* and the writer service.                                                 *)
(***************************************************************************)
MaxHours   == 2
MaxRecords == 2

SecsPerMinute == 60
SecsPerHour   == 3600
SecsPerDay    == 86400

\* The instants the clock shows: two minutes of each hour.
UsageInstants == {SecsPerHour * h + s : h \in 0..MaxHours, s \in {30, 90}}

HourStarts == {SecsPerHour * h : h \in 0..MaxHours}

ResponseBytes == {1048576}

NoRecord == [total_requests |-> 0, total_data_bytes |-> 0]

\* The % of i64: the remainder of the division that truncates toward zero,
\* so it has the sign of the dividend.
i64_rem(a, b) == IF a >= 0 THEN a % b ELSE 0 - ((0 - a) % b)

\* Mutant: the request is not counted.
record_without_count(d, account_id, key_id, plan_id, response_bytes, timestamp_secs) ==
    LET minute_ts == timestamp_secs - i64_rem(timestamp_secs, SecsPerMinute)
        key == [account_id |-> account_id, key_id |-> key_id,
                plan_id |-> plan_id, minute_ts |-> minute_ts]
        old == IF key \in DOMAIN d THEN d[key] ELSE NoRecord
    IN Put(d, key, [total_requests   |-> old.total_requests,
                    total_data_bytes |-> old.total_data_bytes + response_bytes])

\* UsageTracker::record
record(d, account_id, key_id, plan_id, response_bytes, timestamp_secs) ==
    LET minute_ts == timestamp_secs - i64_rem(timestamp_secs, SecsPerMinute)
        key == [account_id |-> account_id, key_id |-> key_id,
                plan_id |-> plan_id, minute_ts |-> minute_ts]
        old == IF key \in DOMAIN d THEN d[key] ELSE NoRecord
    IN Put(d, key, [total_requests   |-> old.total_requests + 1,
                    total_data_bytes |-> old.total_data_bytes + response_bytes])

Restrict(m, S) == [x \in S |-> m[x]]

\* Mutant: the end of the hour is taken as inclusive.
drain_hour_closed(d, hour_ts) ==
    LET hour_end == hour_ts + SecsPerHour
        hit == {key \in DOMAIN d : key.minute_ts >= hour_ts /\ key.minute_ts <= hour_end}
    IN [drained |-> Restrict(d, hit), data |-> Restrict(d, DOMAIN d \ hit)]

\* Mutant: the hour's entries are returned as a copy and stay in the map.
drain_hour_leaving_entries(d, hour_ts) ==
    LET hour_end == hour_ts + SecsPerHour
        hit == {key \in DOMAIN d : key.minute_ts >= hour_ts /\ key.minute_ts < hour_end}
    IN [drained |-> Restrict(d, hit), data |-> d]

\* UsageTracker::drain_hour
drain_hour(d, hour_ts) ==
    LET hour_end == hour_ts + SecsPerHour
        hit == {key \in DOMAIN d : key.minute_ts >= hour_ts /\ key.minute_ts < hour_end}
    IN [drained |-> Restrict(d, hit), data |-> Restrict(d, DOMAIN d \ hit)]

\* Mutant: the entries are returned as a copy and stay in the map.
drain_all_leaving_entries(d) == [drained |-> d, data |-> d]

\* UsageTracker::drain_all
drain_all(d) == [drained |-> d, data |-> EmptyMap]

\* now - (now % 3600)
current_hour_ts(t) == t - (t % SecsPerHour)

\* The grouping of flush_all and flush_to_disk.
by_hour(records) ==
    [hour_ts \in {key.minute_ts - i64_rem(key.minute_ts, SecsPerHour) : key \in DOMAIN records} |->
        Restrict(records, {key \in DOMAIN records :
                              key.minute_ts - i64_rem(key.minute_ts, SecsPerHour) = hour_ts})]

\* usage-%Y%m%d%H.db, with the date kept as the day since the epoch.
db_filename(hour_ts) ==
    [day |-> hour_ts \div SecsPerDay, hour |-> (hour_ts % SecsPerDay) \div SecsPerHour]

\* datetime(?4, 'unixepoch')
datetime(ts) ==
    [day    |-> ts \div SecsPerDay,
     hour   |-> (ts % SecsPerDay) \div SecsPerHour,
     minute |-> (ts % SecsPerHour) \div SecsPerMinute,
     second |-> ts % SecsPerMinute]

\* The primary key of table Usage.
RowKey(key) ==
    [account_id |-> key.account_id, key_id |-> key.key_id,
     plan_id |-> key.plan_id, date_time |-> datetime(key.minute_ts)]

\* Mutant: ON CONFLICT replaces the row.
execute_replacing(rows, key, rec) ==
    Put(rows, RowKey(key), [total_requests |-> rec.total_requests,
                            total_data_bytes |-> rec.total_data_bytes])

\* One stmt.execute of the upsert.  total_data_mb is kept in bytes: the
\* column holds bytes / 2^20, and sums of the sizes used here are exact.
execute(rows, key, rec) ==
    LET row == RowKey(key)
        old == IF row \in DOMAIN rows THEN rows[row] ELSE NoRecord
    IN Put(rows, row, [total_requests   |-> old.total_requests + rec.total_requests,
                       total_data_bytes |-> old.total_data_bytes + rec.total_data_bytes])

RECURSIVE execute_each(_, _, _)
execute_each(rows, records, todo) ==
    IF todo = {} THEN rows
    ELSE LET key == CHOOSE k \in todo : TRUE
         IN execute_each(execute(rows, key, records[key]), records, todo \ {key})

\* How a write can go: the database cannot be opened or the table not
\* created, or the statement is executed for some of the records and, unless
\* for all of them, then fails.  Each execute commits on its own.
WriteOutcomes(records) ==
    {[opened |-> FALSE, rows |-> {}]}
        \cup {[opened |-> TRUE, rows |-> S] : S \in SUBSET DOMAIN records}

WriteOk(records, outcome) == outcome.opened /\ outcome.rows = DOMAIN records

\* write_records_to_db, both copies.
write_records_to_db(fs, hour_ts, records, outcome) ==
    IF ~outcome.opened THEN fs
    ELSE LET filename == db_filename(hour_ts)
             rows == IF filename \in DOMAIN fs THEN fs[filename] ELSE EmptyMap
         IN Put(fs, filename, execute_each(rows, records, outcome.rows))

\* Mutant: the records of a failed write stay in the aggregator.
flush_hour_putting_back(d, fs, hour_ts, outcome) ==
    LET drained == drain_hour(d, hour_ts) IN
    IF drained.drained = EmptyMap
    THEN [data |-> drained.data, files |-> fs, ok |-> TRUE, attempted |-> {}]
    ELSE [data |-> IF WriteOk(drained.drained, outcome) THEN drained.data ELSE d,
          files |-> write_records_to_db(fs, hour_ts, drained.drained, outcome),
          ok |-> WriteOk(drained.drained, outcome),
          attempted |-> {hour_ts}]

\* UsageWriter::flush_hour
flush_hour(d, fs, hour_ts, outcome) ==
    LET drained == drain_hour(d, hour_ts) IN
    IF drained.drained = EmptyMap
    THEN [data |-> drained.data, files |-> fs, ok |-> TRUE, attempted |-> {}]
    ELSE [data |-> drained.data,
          files |-> write_records_to_db(fs, hour_ts, drained.drained, outcome),
          ok |-> WriteOk(drained.drained, outcome),
          attempted |-> {hour_ts}]

\* The loop of flush_all over by_hour, in the order the HashMap gives:
\* the first failed write returns the error.
RECURSIVE flush_all_from(_, _, _, _, _)
flush_all_from(fs, groups, order, outcomes, i) ==
    IF i > Len(order) THEN [files |-> fs, ok |-> TRUE, attempted |-> {}]
    ELSE LET hour_ts == order[i]
             after == write_records_to_db(fs, hour_ts, groups[hour_ts], outcomes[hour_ts])
         IN IF ~WriteOk(groups[hour_ts], outcomes[hour_ts])
            THEN [files |-> after, ok |-> FALSE, attempted |-> {hour_ts}]
            ELSE LET rest == flush_all_from(after, groups, order, outcomes, i + 1)
                 IN [rest EXCEPT !.attempted = @ \cup {hour_ts}]

\* The loop of flush_to_disk: a failed write is logged and the loop goes on.
RECURSIVE flush_to_disk_from(_, _, _, _, _)
flush_to_disk_from(fs, groups, order, outcomes, i) ==
    IF i > Len(order) THEN [files |-> fs, ok |-> TRUE, attempted |-> {}]
    ELSE LET hour_ts == order[i]
             after == write_records_to_db(fs, hour_ts, groups[hour_ts], outcomes[hour_ts])
             rest  == flush_to_disk_from(after, groups, order, outcomes, i + 1)
         IN [rest EXCEPT !.attempted = @ \cup {hour_ts},
                         !.ok = @ /\ WriteOk(groups[hour_ts], outcomes[hour_ts])]

\* The orders in which a HashMap with these keys can be iterated.
Orders(S) == {o \in [1..Cardinality(S) -> S] : \A x \in S : \E i \in DOMAIN o : o[i] = x}

\* Mutant: only the first hour of the grouping is written.
flush_all_first_hour(d, fs, order, outcomes) ==
    LET all_records == drain_all(d) IN
    IF all_records.drained = EmptyMap
    THEN [data |-> all_records.data, files |-> fs, ok |-> TRUE, attempted |-> {}]
    ELSE LET hour_ts == order[1]
             groups  == by_hour(all_records.drained)
         IN [data |-> all_records.data,
             files |-> write_records_to_db(fs, hour_ts, groups[hour_ts], outcomes[hour_ts]),
             ok |-> WriteOk(groups[hour_ts], outcomes[hour_ts]),
             attempted |-> {hour_ts}]

\* UsageWriter::flush_all
flush_all(d, fs, order, outcomes) ==
    LET all_records == drain_all(d) IN
    IF all_records.drained = EmptyMap
    THEN [data |-> all_records.data, files |-> fs, ok |-> TRUE, attempted |-> {}]
    ELSE LET r == flush_all_from(fs, by_hour(all_records.drained), order, outcomes, 1)
         IN [data |-> all_records.data, files |-> r.files, ok |-> r.ok,
             attempted |-> r.attempted]

\* UsageTracker::flush_to_disk, run by Drop.
flush_to_disk(d, fs, order, outcomes) ==
    LET all_records == drain_all(d) IN
    IF all_records.drained = EmptyMap
    THEN [data |-> all_records.data, files |-> fs, ok |-> TRUE, attempted |-> {}]
    ELSE LET r == flush_to_disk_from(fs, by_hour(all_records.drained), order, outcomes, 1)
         IN [data |-> all_records.data, files |-> r.files, ok |-> r.ok,
             attempted |-> r.attempted]

\* History: the requests handed to executes that succeeded, by file and row.
NoteWritten(written, hour_ts, records, outcome) ==
    IF ~outcome.opened THEN written
    ELSE [x \in DOMAIN written \cup {<<db_filename(hour_ts), RowKey(k)>> : k \in outcome.rows} |->
            (IF x \in DOMAIN written THEN written[x] ELSE 0)
            + SumOver([k \in outcome.rows |->
                         IF x = <<db_filename(hour_ts), RowKey(k)>>
                         THEN records[k].total_requests ELSE 0], outcome.rows)]

RECURSIVE NoteWrittenAll(_, _, _, _)
NoteWrittenAll(written, groups, outcomes, hours) ==
    IF hours = {} THEN written
    ELSE LET hour_ts == CHOOSE h \in hours : TRUE
         IN NoteWrittenAll(NoteWritten(written, hour_ts, groups[hour_ts], outcomes[hour_ts]),
                           groups, outcomes, hours \ {hour_ts})

\* The requests and bytes a set of entries counts.
Totals(d) ==
    [total_requests   |-> SumOver([key \in DOMAIN d |-> d[key].total_requests], DOMAIN d),
     total_data_bytes |-> SumOver([key \in DOMAIN d |-> d[key].total_data_bytes], DOMAIN d)]

\* History: the totals drains have returned, with one more drain's entries.
NoteDrained(sofar, d) ==
    [total_requests   |-> sofar.total_requests + Totals(d).total_requests,
     total_data_bytes |-> sofar.total_data_bytes + Totals(d).total_data_bytes]

\* History: the requests handed to write_records_to_db, with the groups of
\* the hours a flush has attempted.
NoteHanded(sofar, groups, attempted) ==
    sofar + SumOver([h \in attempted |-> Totals(groups[h]).total_requests], attempted)

(***************************************************************************)
(* SpecUsage: requests recording usage, the clock, the writer's loop and   *)
(* the shutdown.                                                           *)
(***************************************************************************)
UsageStore ==
    upsert_api_key(
        upsert_account(upsert_plan(EmptyStore, [plan_id |-> 1, rps_limit |-> 3]),
                       [account_id |-> 1, plan_id |-> 1]),
        [key_id |-> 1, account_id |-> 1, api_key_hash |-> "h1", is_active |-> TRUE])

\* The state after Server::bootstrap and UsageWriter::new.
InitUsage ==
    /\ store = UsageStore
    /\ lastOp = [op |-> "new", key |-> NoKey, old |-> {}]
    /\ ReplIdle
    /\ CfgIdle
    /\ reqs = << >>
    /\ RATE_LIMITERS = EmptyMap
    /\ metrics = EmptyMap
    /\ limits = EmptyMap
    /\ now = 30
    /\ data = EmptyMap
    /\ files = EmptyMap
    /\ last_flushed_hour = {}
    /\ usagePc = "start"
    /\ usageReqs = << >>
    /\ usageHist = NoUsageHist
    /\ HistIdle

usageFrame == <<lastOp, db, dbHist, replPc, lastPass, synced, reqs, RATE_LIMITERS,
                metrics, limits, cfgVars, histVars>>

\* UsageWriter::start, before the loop.
WriterStart ==
    /\ usagePc = "start"
    /\ usagePc' = "waiting"
    /\ last_flushed_hour' = {current_hour_ts(now)}
    /\ usageHist' = [usageHist EXCEPT !.start = current_hour_ts(now), !.last = NoStep]
    /\ UNCHANGED <<usageFrame, store, shutdown, now, data, files, usageReqs>>

UsageClock ==
    /\ usagePc \in {"waiting", "stopped"}
    /\ \E t \in UsageInstants : t > now /\ now' = t
    /\ usageHist' = [usageHist EXCEPT !.last = NoStep]
    /\ UNCHANGED <<usageFrame, store, shutdown, data, files, last_flushed_hour,
                   usagePc, usageReqs>>

\* The key is revoked while the server runs.
UsageRevokeKey ==
    /\ usagePc # "dropped"
    /\ store = UsageStore
    /\ store' = delete_api_key(store, 1)
    /\ usageHist' = [usageHist EXCEPT !.last = NoStep]
    /\ UNCHANGED <<usageFrame, shutdown, now, data, files, last_flushed_hour,
                   usagePc, usageReqs>>

\* Admission of a request carrying an API key: the context is looked up.
UsageAdmit ==
    /\ usagePc # "dropped"
    /\ usageHist.admitted < MaxRecords
    /\ \E api_key_hash \in {"h1", "h2"} :
          usageReqs' = Append(usageReqs, [ctx |-> get_key_context(store, api_key_hash)])
    /\ usageHist' = [usageHist EXCEPT !.admitted = @ + 1, !.last = NoStep]
    /\ UNCHANGED <<usageFrame, store, shutdown, now, data, files, last_flushed_hour, usagePc>>

\* Completion of a request: its usage is recorded if it has a context.
UsageComplete ==
    /\ usagePc # "dropped"
    /\ \E i \in DOMAIN usageReqs : \E response_bytes \in ResponseBytes :
          LET ctx == usageReqs[i].ctx IN
          /\ usageReqs' = SubSeq(usageReqs, 1, i - 1) \o SubSeq(usageReqs, i + 1, Len(usageReqs))
          /\ data' = IF ctx = {} THEN data
                     ELSE LET c == CHOOSE c \in ctx : TRUE
                          IN record(data, c[1], c[2], c[3], response_bytes, now)
          /\ usageHist' =
                [usageHist EXCEPT
                    !.recorded = IF ctx = {} THEN @ ELSE @ + 1,
                    !.bytes = IF ctx = {} THEN @ ELSE @ + response_bytes,
                    !.late = IF ctx # {} /\ usagePc = "stopped" THEN @ + 1 ELSE @,
                    !.hours = IF ctx = {} THEN @ ELSE @ \cup {current_hour_ts(now)},
                    !.last = [kind |-> "done", ctx |-> ctx, bytes |-> response_bytes,
                              before |-> data]]
    /\ UNCHANGED <<usageFrame, store, shutdown, now, files, last_flushed_hour, usagePc>>

\* The sleep arm of the writer's loop.
FlushTick ==
    /\ usagePc = "waiting"
    /\ LET current_hour == current_hour_ts(now)
           last == CHOOSE h \in last_flushed_hour : TRUE
       IN IF current_hour > last
          THEN \E outcome \in WriteOutcomes(drain_hour(data, last).drained) :
                  LET r == flush_hour(data, files, last, outcome) IN
                  /\ data' = r.data
                  /\ files' = r.files
                  /\ last_flushed_hour' = {current_hour}
                  /\ usageHist' =
                        [usageHist EXCEPT
                            !.failed = @ \/ ~r.ok,
                            !.written = IF r.attempted = {} THEN @
                                        ELSE NoteWritten(@, last, drain_hour(data, last).drained,
                                                         outcome),
                            !.flushes = Append(@, last),
                            !.drained = NoteDrained(@, drain_hour(data, last).drained),
                            !.handed = IF r.attempted = {} THEN @
                                       ELSE @ + Totals(drain_hour(data, last).drained).total_requests,
                            !.last = [kind |-> "hour", hour |-> last, before |-> data,
                                      ok |-> r.ok]]
          ELSE /\ usageHist' = [usageHist EXCEPT !.last = NoStep]
               /\ UNCHANGED <<data, files, last_flushed_hour>>
    /\ UNCHANGED <<usageFrame, store, shutdown, now, usagePc, usageReqs>>

UsageShutdown ==
    /\ usagePc \in {"start", "waiting"}
    /\ ~shutdown
    /\ shutdown' = TRUE
    /\ usageHist' = [usageHist EXCEPT !.last = NoStep]
    /\ UNCHANGED <<usageFrame, store, now, data, files, last_flushed_hour, usagePc, usageReqs>>

\* The writer sees the shutdown signal, flushes everything and returns.
ShutdownFlush ==
    /\ usagePc = "waiting"
    /\ shutdown
    /\ LET groups == by_hour(data) IN
       \E order \in Orders(DOMAIN groups) :
       \E outcomes \in [DOMAIN groups -> UNION {WriteOutcomes(groups[h]) : h \in DOMAIN groups}] :
          /\ \A h \in DOMAIN groups : outcomes[h] \in WriteOutcomes(groups[h])
          /\ LET r == flush_all(data, files, order, outcomes) IN
             /\ data' = r.data
             /\ files' = r.files
             /\ usageHist' =
                   [usageHist EXCEPT
                       !.failed = @ \/ ~r.ok,
                       !.written = NoteWrittenAll(@, groups, outcomes, r.attempted),
                       !.drained = NoteDrained(@, drain_all(data).drained),
                       !.handed = NoteHanded(@, groups, r.attempted),
                       !.last = [kind |-> "all", hours |-> DOMAIN groups,
                                 attempted |-> r.attempted, ok |-> r.ok,
                                 before |-> data]]
    /\ usagePc' = "stopped"
    /\ UNCHANGED <<usageFrame, store, shutdown, now, last_flushed_hour, usageReqs>>

\* The last reference to the tracker goes away: Drop runs flush_to_disk.
TrackerDrop ==
    /\ usagePc = "stopped"
    /\ usageReqs = << >>
    /\ LET groups == by_hour(data) IN
       \E order \in Orders(DOMAIN groups) :
       \E outcomes \in [DOMAIN groups -> UNION {WriteOutcomes(groups[h]) : h \in DOMAIN groups}] :
          /\ \A h \in DOMAIN groups : outcomes[h] \in WriteOutcomes(groups[h])
          /\ LET r == flush_to_disk(data, files, order, outcomes) IN
             /\ data' = r.data
             /\ files' = r.files
             /\ usageHist' =
                   [usageHist EXCEPT
                       !.failed = @ \/ ~r.ok,
                       !.written = NoteWrittenAll(@, groups, outcomes, r.attempted),
                       !.drained = NoteDrained(@, drain_all(data).drained),
                       !.handed = NoteHanded(@, groups, r.attempted),
                       !.last = [kind |-> "drop", hours |-> DOMAIN groups,
                                 attempted |-> r.attempted, ok |-> r.ok,
                                 before |-> data]]
    /\ usagePc' = "dropped"
    /\ UNCHANGED <<usageFrame, store, shutdown, now, last_flushed_hour, usageReqs>>

NextUsage ==
    \/ WriterStart
    \/ UsageClock
    \/ UsageRevokeKey
    \/ UsageAdmit
    \/ UsageComplete
    \/ FlushTick
    \/ UsageShutdown
    \/ ShutdownFlush
    \/ TrackerDrop

SpecUsage == InitUsage /\ [][NextUsage]_vars

\* The requests counted in the aggregator and in the files.
DataTotal(d) == SumOver([key \in DOMAIN d |-> d[key].total_requests], DOMAIN d)

FilesTotal(fs) ==
    SumOver([filename \in DOMAIN fs |-> DataTotal(fs[filename])], DOMAIN fs)

\* C15: a completed request whose key context was resolved at admission
\* adds exactly one usage record, for its account, key and plan, its
\* response bytes and the minute of its completion; a request without a
\* context adds none.
C15_OneRecordPerResolvedRequest ==
    usageHist.last.kind = "done" =>
        LET before == usageHist.last.before
            ctx    == usageHist.last.ctx
        IN IF ctx = {} THEN data = before
           ELSE \E key \in DOMAIN data :
                   LET old == IF key \in DOMAIN before THEN before[key] ELSE NoRecord IN
                   /\ <<key.account_id, key.key_id, key.plan_id>> \in ctx
                   /\ key.minute_ts % SecsPerMinute = 0
                   /\ key.minute_ts <= now /\ now < key.minute_ts + SecsPerMinute
                   /\ data[key].total_requests = old.total_requests + 1
                   /\ data[key].total_data_bytes = old.total_data_bytes + usageHist.last.bytes
                   /\ DataTotal(data) = DataTotal(before) + 1
                   /\ \A other \in DOMAIN data \ {key} :
                         other \in DOMAIN before /\ data[other] = before[other]

\* A request admitted with a context completes after its key was revoked
\* and after another request was recorded.
C15_Witness ==
    /\ usageHist.last.kind = "done"
    /\ usageHist.last.ctx # {}
    /\ get_key_context(store, "h1") = {}
    /\ usageHist.last.before # EmptyMap
    /\ DataTotal(data) = DataTotal(usageHist.last.before) + 1

C17_WritesAreAdditive ==
    /\ \A filename \in DOMAIN files : \A row \in DOMAIN files[filename] :
          /\ <<filename, row>> \in DOMAIN usageHist.written
          /\ files[filename][row].total_requests = usageHist.written[<<filename, row>>]
    /\ \A x \in DOMAIN usageHist.written :
          x[1] \in DOMAIN files /\ x[2] \in DOMAIN files[x[1]]

\* One request was written by the shutdown flush, a later one of the same
\* minute by the flush on drop: the row holds both.
C17_Witness ==
    /\ usageHist.last.kind = "drop"
    /\ usageHist.last.before # EmptyMap
    /\ usageHist.late = 1
    /\ usageHist.recorded = 2
    /\ \E filename \in DOMAIN files : \E row \in DOMAIN files[filename] :
          files[filename][row].total_requests = 2

\* C18: the periodic flusher has flushed every hour from the one the writer
\* started in to the one before its cursor, each exactly once.
C18_OneFlushPerClosedHour ==
    usagePc = "waiting" =>
        \A cursor \in last_flushed_hour :
            /\ \A hour_ts \in HourStarts :
                  usageHist.start <= hour_ts /\ hour_ts < cursor =>
                      \E i \in DOMAIN usageHist.flushes : usageHist.flushes[i] = hour_ts
            /\ \A i, j \in DOMAIN usageHist.flushes :
                  usageHist.flushes[i] = usageHist.flushes[j] => i = j

\* C19: the shutdown flush drains every entry and attempts the write of
\* every hour it drained, a failed write of one hour notwithstanding.
C19_ShutdownFlushAttemptsEveryHour ==
    usageHist.last.kind = "all" =>
        /\ data = EmptyMap
        /\ usageHist.last.hours =
              {key.minute_ts - (key.minute_ts % SecsPerHour) :
                  key \in DOMAIN usageHist.last.before}
        /\ usageHist.last.attempted = usageHist.last.hours

\* C20: drain_hour(h) returns exactly the entries of the minutes of
\* [h, h + 3600) and leaves the others as they were, so the periodic flush
\* of hour h takes nothing else, and every row of a file lies in the hour
\* the file is named after.
InHour(key, hour_ts) == hour_ts <= key.minute_ts /\ key.minute_ts < hour_ts + SecsPerHour

C20_DrainHourTakesItsHour ==
    /\ \A hour_ts \in HourStarts :
          LET r == drain_hour(data, hour_ts) IN
          /\ DOMAIN r.drained = {key \in DOMAIN data : InHour(key, hour_ts)}
          /\ DOMAIN r.data = {key \in DOMAIN data : ~InHour(key, hour_ts)}
          /\ \A key \in DOMAIN r.drained : r.drained[key] = data[key]
          /\ \A key \in DOMAIN r.data : r.data[key] = data[key]
    /\ usageHist.last.kind = "hour" =>
          /\ \A key \in DOMAIN data :
                /\ ~InHour(key, usageHist.last.hour)
                /\ key \in DOMAIN usageHist.last.before
                /\ data[key] = usageHist.last.before[key]
          /\ \A key \in DOMAIN usageHist.last.before :
                ~InHour(key, usageHist.last.hour) => key \in DOMAIN data
    /\ \A filename \in DOMAIN files : \A row \in DOMAIN files[filename] :
          /\ row.date_time.day = filename.day
          /\ row.date_time.hour = filename.hour

\* A periodic flush took the entries of its hour, wrote them and left an
\* entry of the next hour in the aggregator.
C20_Witness ==
    /\ usageHist.last.kind = "hour"
    /\ ~usageHist.failed
    /\ data # EmptyMap
    /\ data # usageHist.last.before
    /\ db_filename(usageHist.last.hour) \in DOMAIN files

\* The entries the latest drain returned, and the map it left.
LastDrain ==
    IF usageHist.last.kind = "hour"
    THEN drain_hour(usageHist.last.before, usageHist.last.hour)
    ELSE drain_all(usageHist.last.before)

\* C40: whatever the interleaving of record calls, the periodic flush_hour,
\* the shutdown's flush_all and the tracker's flush at drop: a drain takes
\* out of the map the entries it returns, so no entry is returned by two
\* drains; the totals all drains returned plus the totals in the map are the
\* totals recorded; and no more requests were handed to the writer than drains
\* returned, so each recorded request is handed over at most once.
C40_UsageConserved ==
    /\ usageHist.drained.total_requests + Totals(data).total_requests
          = usageHist.recorded
    /\ usageHist.drained.total_data_bytes + Totals(data).total_data_bytes
          = usageHist.bytes
    /\ usageHist.handed <= usageHist.drained.total_requests
    /\ FilesTotal(files) <= usageHist.handed
    /\ usageHist.last.kind \in {"hour", "all", "drop"} =>
          /\ DOMAIN data \cap DOMAIN LastDrain.drained = {}
          /\ data = Restrict(usageHist.last.before,
                             DOMAIN usageHist.last.before \ DOMAIN LastDrain.drained)

\* A periodic flush has drained a request, the writer has shut down, and
\* the flush at drop has drained a request recorded after the shutdown.
C40_Witness ==
    /\ usagePc = "dropped"
    /\ usageHist.last.kind = "drop"
    /\ usageHist.last.before # EmptyMap
    /\ usageHist.late > 0
    /\ Len(usageHist.flushes) > 0
    /\ usageHist.drained.total_requests = 2
    /\ usageHist.handed = 2
    /\ data = EmptyMap

\* The shutdown flush drained two hours and handed one of them to the
\* writer; what it returned is in the map no more.
C40_WitnessShutdown ==
    /\ usageHist.last.kind = "all"
    /\ Cardinality(usageHist.last.hours) = 2
    /\ usageHist.drained.total_requests = 2
    /\ usageHist.handed = 1

\* The latest step was a periodic flush whose write failed.
HourFlushFailed == usageHist.last.kind = "hour" /\ ~usageHist.last.ok

\* C35: when the write of the periodic flush fails, the failure is noted,
\* the drained records are not back in the aggregator, last_flushed_hour is
\* the current hour and the loop goes on waiting; what was not written is in
\* neither the aggregator nor the files afterwards.
C35_FailedFlushLosesHour ==
    /\ HourFlushFailed =>
          LET drained == drain_hour(usageHist.last.before, usageHist.last.hour).drained IN
          /\ usageHist.failed
          /\ drained # EmptyMap
          /\ DOMAIN data = DOMAIN usageHist.last.before \ DOMAIN drained
          /\ last_flushed_hour = {current_hour_ts(now)}
          /\ usageHist.last.hour < current_hour_ts(now)
          /\ usagePc = "waiting"
          /\ FilesTotal(files) + DataTotal(data) < usageHist.recorded
    /\ (usageHist.failed /\ usagePc = "waiting")
          => FilesTotal(files) + DataTotal(data) < usageHist.recorded

C35_Witness == HourFlushFailed /\ data # EmptyMap

\* The loop flushed an hour after the flush of an earlier hour had failed.
C35_WitnessNextFlush ==
    /\ usageHist.failed
    /\ Len(usageHist.flushes) = 2
    /\ usageHist.last.kind = "hour"
    /\ usageHist.last.ok
    /\ drain_hour(usageHist.last.before, usageHist.last.hour).drained # EmptyMap

(***************************************************************************)
(* SpecTracker: the UsageTracker under arbitrary record calls, with any    *)
(* ids and any timestamps, and drains of everything.                       *)
(***************************************************************************)
\* (account_id, key_id, plan_id) of the calls: pairwise different in one id.
TrackerIds == {<<1, 1, 1>>, <<2, 1, 1>>, <<1, 2, 1>>, <<1, 1, 2>>}

\* timestamp_secs is an i64: times before the epoch are arguments too.
TrackerTimes == {-61, -1, 0, 59, 60}

TrackerBytes == {1, 3}

TrackerCalls == [ids : TrackerIds, bytes : TrackerBytes, at : TrackerTimes]

CallCount(bag) == SumOver(bag, DOMAIN bag)

InitTracker ==
    /\ store = EmptyStore
    /\ lastOp = [op |-> "new", key |-> NoKey, old |-> {}]
    /\ ReplIdle
    /\ PipeIdle
    /\ CfgIdle
    /\ UsageIdle
    /\ HistIdle

\* The key record files a call under.
TrackerKey(call) ==
    [account_id |-> call.ids[1], key_id |-> call.ids[2], plan_id |-> call.ids[3],
     minute_ts |-> call.at - i64_rem(call.at, SecsPerMinute)]

\* History: the key followed among those the latest drain returned (any one
\* of them), until it is recorded again.
Gone == IF usageHist.last.kind = "none" THEN {} ELSE usageHist.last.gone

\* The hours drain_hour is called with.
TrackerHours == {-3600, 0}

\* tracker.record(account_id, key_id, plan_id, response_bytes, timestamp_secs)
TrackerRecord ==
    /\ CallCount(calls) < MaxRecords
    /\ \E call \in TrackerCalls :
          /\ data' = record(data, call.ids[1], call.ids[2], call.ids[3], call.bytes, call.at)
          /\ calls' = Put(calls, call, IF call \in DOMAIN calls THEN calls[call] + 1 ELSE 1)
          /\ usageHist' = [usageHist EXCEPT !.last =
                              IF TrackerKey(call) \in Gone
                              THEN [kind |-> "record", key |-> {TrackerKey(call)},
                                    bytes |-> call.bytes, fresh |-> TRUE,
                                    gone |-> Gone \ {TrackerKey(call)},
                                    drained |-> EmptyMap, before |-> EmptyMap]
                              ELSE [kind |-> "record", key |-> {}, bytes |-> 0,
                                    fresh |-> FALSE, gone |-> Gone,
                                    drained |-> EmptyMap, before |-> EmptyMap]]
    /\ UNCHANGED <<storeVars, replVars, pipeVars, cfgVars, files, last_flushed_hour,
                   usagePc, usageReqs, afterSignal, issued, rw>>

\* tracker.drain_all()
TrackerDrainAll ==
    /\ data # EmptyMap
    /\ data' = drain_all(data).data
    /\ calls' = EmptyMap
    /\ \E followed \in DOMAIN drain_all(data).drained :
          usageHist' = [usageHist EXCEPT !.last =
                           [kind |-> "drain_all", key |-> {}, bytes |-> 0, fresh |-> FALSE,
                            gone |-> {followed},
                            drained |-> drain_all(data).drained, before |-> data]]
    /\ UNCHANGED <<storeVars, replVars, pipeVars, cfgVars, files, last_flushed_hour,
                   usagePc, usageReqs, afterSignal, issued, rw>>

\* tracker.drain_hour(hour_ts)
TrackerDrainHour ==
    /\ \E hour_ts \in TrackerHours :
          /\ drain_hour(data, hour_ts).drained # EmptyMap
          /\ data' = drain_hour(data, hour_ts).data
          /\ calls' = Restrict(calls, {call \in DOMAIN calls :
                                          TrackerKey(call) \notin
                                              DOMAIN drain_hour(data, hour_ts).drained})
          /\ \E followed \in DOMAIN drain_hour(data, hour_ts).drained :
                usageHist' = [usageHist EXCEPT !.last =
                                 [kind |-> "drain_hour", key |-> {}, bytes |-> 0,
                                  fresh |-> FALSE, gone |-> {followed},
                                  drained |-> EmptyMap, before |-> EmptyMap]]
    /\ UNCHANGED <<storeVars, replVars, pipeVars, cfgVars, files, last_flushed_hour,
                   usagePc, usageReqs, afterSignal, issued, rw>>

NextTracker ==
    \/ TrackerRecord
    \/ TrackerDrainAll
    \/ TrackerDrainHour

SpecTracker == InitTracker /\ [][NextTracker]_vars

\* The minute starts among which the entries of the calls can lie.
TrackerMinutes == {-120, -60, 0, 60}

\* The calls made with these ids at a time of the minute starting at minute_ts.
CallsIn(ids, minute_ts) ==
    {call \in DOMAIN calls :
        /\ call.ids = ids
        /\ minute_ts <= call.at /\ call.at < minute_ts + SecsPerMinute}

\* C21: with no drain since, the entry of (account_id, key_id, plan_id,
\* minute) counts the record calls with those ids at a time of that minute
\* and sums their bytes, and there is no entry where there was no such call.
C21_EntryCountsItsCalls ==
    /\ \A ids \in TrackerIds : \A minute_ts \in TrackerMinutes :
          LET key  == [account_id |-> ids[1], key_id |-> ids[2],
                       plan_id |-> ids[3], minute_ts |-> minute_ts]
              mine == CallsIn(ids, minute_ts)
          IN IF mine = {} THEN key \notin DOMAIN data
             ELSE /\ key \in DOMAIN data
                  /\ data[key].total_requests = SumOver([c \in mine |-> calls[c]], mine)
                  /\ data[key].total_data_bytes
                        = SumOver([c \in mine |-> calls[c] * c.bytes], mine)
    /\ \A key \in DOMAIN data : key.minute_ts \in TrackerMinutes

\* C30: every entry's minute_ts is a multiple of 60, and every recorded
\* timestamp t lies in an entry of its ids with minute_ts <= t < minute_ts + 60.
C30_MinuteContainsTimestamp ==
    /\ \A key \in DOMAIN data : key.minute_ts % SecsPerMinute = 0
    /\ \A call \in DOMAIN calls :
          \E key \in DOMAIN data :
              /\ <<key.account_id, key.key_id, key.plan_id>> = call.ids
              /\ key.minute_ts <= call.at
              /\ call.at < key.minute_ts + SecsPerMinute

\* C31: drain_all returns every entry and leaves the map empty; the first
\* record of a key after a drain (drain_all, or a drain_hour covering it)
\* returned its entry makes a fresh entry of one request and that call's bytes.
C31_DrainedEntriesStartAfresh ==
    /\ usageHist.last.kind = "drain_all" =>
          /\ usageHist.last.drained = usageHist.last.before
          /\ data = EmptyMap
    /\ usageHist.last.kind \in {"drain_all", "drain_hour"} =>
          \A key \in usageHist.last.gone : key \notin DOMAIN data
    /\ (usageHist.last.kind = "record" /\ usageHist.last.fresh) =>
          \A key \in usageHist.last.key :
              /\ key \in DOMAIN data
              /\ data[key] = [total_requests |-> 1,
                              total_data_bytes |-> usageHist.last.bytes]

\* A key is recorded again after drain_hour returned its entry, while an
\* entry of another hour stayed in the map.
C31_Witness ==
    /\ usageHist.last.kind = "record"
    /\ usageHist.last.fresh
    /\ usageHist.last.bytes = 3
    /\ Cardinality(DOMAIN data) = 2

\* drain_all has returned two entries.
C31_WitnessDrainAll ==
    /\ usageHist.last.kind = "drain_all"
    /\ Cardinality(DOMAIN usageHist.last.drained) = 2

\* A step after the bootstrap: the cursor does not decrease, and it changes
\* only in a delta pass that ended without error, which leaves it at the
\* change_id of the last ChangeLog row.
CursorStep ==
    replPc \in {"waiting", "stopped"} =>
        /\ store'.max_change_id >= store.max_change_id
        /\ store'.max_change_id # store.max_change_id =>
              /\ replPc = "waiting"
              /\ lastPass'.kind = "ok"
              /\ lastPass'.before = store
              /\ lastPass'.applied > 0
              /\ store'.max_change_id = MaxChangeId(db)

\* C38: after the bootstrap the replication cursor max_change_id never
\* decreases, over successful and failed delta passes, and nothing but the
\* end of a successful pass changes it.
C38_CursorMonotonic == [][CursorStep]_vars

\* A failed pass applied an entry, changed the store and left the cursor
\* where a pass before it had put it.
C38_Witness ==
    /\ replPc = "waiting"
    /\ lastPass.kind = "failed"
    /\ lastPass.applied > 0
    /\ store # lastPass.before
    /\ store.max_change_id = lastPass.before.max_change_id
    /\ store.max_change_id > 0
    /\ store.max_change_id < MaxChangeId(db)

\* A successful pass moved the cursor forward.
C38_WitnessAdvance ==
    /\ lastPass.kind = "ok"
    /\ lastPass.applied > 0
    /\ store.max_change_id > lastPass.before.max_change_id
    /\ lastPass.before.max_change_id > 0

(***************************************************************************)
(* SpecProxy: the proxy as RateLimitedLb::new builds it, around any        *)
(* Config, with admitted requests going through upstream_peer and, when an *)
(* upstream answers, response_filter.                                      *)
(***************************************************************************)
\* The statuses an upstream answers with.
UpstreamStatuses == {200, 503}

\* A request that request_filter has admitted: ctx holds its API key.
Admitted(api_key, path) ==
    [pc |-> "upstream", ctx |-> {api_key}, path |-> path, status |-> 0,
     peer |-> NoPeer, recs |-> << >>]

\* RateLimitedLb::new takes the config it is given.
InitProxy ==
    /\ store = EmptyStore
    /\ lastOp = [op |-> "new", key |-> NoKey, old |-> {}]
    /\ ReplIdle
    /\ PipeIdle
    /\ UsageIdle
    /\ HistIdle
    /\ config \in Configs
    /\ cfgPc = "idle"
    /\ lastReload = NoReload
    /\ peer = NoPeer

\* request_filter returns Ok(false) for a request with a key within quota.
ProxyAdmit ==
    /\ Len(reqs) < MaxProxied
    /\ \E api_key \in ApiKeyStrings : \E path \in RequestPaths :
          reqs' = Append(reqs, Admitted(api_key, path))
    /\ UNCHANGED <<RATE_LIMITERS, metrics, limits, now, storeVars, replVars, cfgVars,
                   usageVars, histVars>>

\* upstream_peer: Ok(peer) sends the request upstream; Err(HTTPStatus(code))
\* goes back to the host proxy, which answers with the code.  No upstream
\* response header exists for that answer, so response_filter is not run.
ProxyUpstreamPeer(i) ==
    /\ reqs[i].pc = "upstream"
    /\ \E result \in upstream_peer(config, reqs[i].path) :
          reqs' = [reqs EXCEPT ![i] =
                     IF result.status = 0
                     THEN [@ EXCEPT !.pc = "proxied", !.peer = result]
                     ELSE [@ EXCEPT !.pc = "responded", !.peer = result,
                                    !.status = result.status]]
    /\ UNCHANGED <<RATE_LIMITERS, metrics, limits, now, storeVars, replVars, cfgVars,
                   usageVars, histVars>>

\* response_filter, on the response header of the upstream.
ProxyResponseFilter(i) ==
    /\ reqs[i].pc = "proxied"
    /\ \E status \in UpstreamStatuses :
          LET api_key == CHOOSE k \in reqs[i].ctx : TRUE IN
          /\ metrics' = record_at(metrics, api_key, status, now)
          /\ reqs' = [reqs EXCEPT ![i] =
                        [@ EXCEPT !.pc = "responded", !.status = status,
                                  !.recs = Append(@, [api_key |-> api_key,
                                                      status |-> status])]]
    /\ UNCHANGED <<RATE_LIMITERS, limits, now, storeVars, replVars, cfgVars,
                   usageVars, histVars>>

NextProxy ==
    \/ ProxyAdmit
    \/ \E i \in 1..Len(reqs) : ProxyUpstreamPeer(i)
    \/ \E i \in 1..Len(reqs) : ProxyResponseFilter(i)

SpecProxy == InitProxy /\ [][NextProxy]_vars

\* Request i was answered by upstream_peer's "No backend found for service".
NoBackend(i) ==
    /\ reqs[i].pc = "responded"
    /\ reqs[i].peer.status = 503

NoBackendAnswered ==
    \A i \in Requests :
        /\ NoBackend(i) => reqs[i].status = 503 /\ reqs[i].recs = << >>
        /\ (reqs[i].pc = "responded" /\ reqs[i].peer.status = 0)
              => reqs[i].recs = <<[api_key |-> CHOOSE k \in reqs[i].ctx : TRUE,
                                   status |-> reqs[i].status]>>

NoBackendSeen ==
    \E i \in Requests :
        /\ NoBackend(i)
        /\ Recorded(CHOOSE k \in reqs[i].ctx : TRUE, 503) = 0

(***************************************************************************)
(* SpecMetrics: the metrics sink under arbitrary record_at calls.  Each    *)
(* call holds the mutex of counts from the lookup to the increment, so     *)
(* concurrent calls take effect one after the other, in any order.         *)
(***************************************************************************)
MetricStatuses == {200, 429}

\* Seconds from the epoch; -5 is a time before it.
MetricTimes == {-5, 5, 60, 65}

MetricCalls == [api_key : ApiKeyStrings, status : MetricStatuses, at : MetricTimes]

InitMetrics ==
    /\ store = EmptyStore
    /\ lastOp = [op |-> "new", key |-> NoKey, old |-> {}]
    /\ ReplIdle
    /\ PipeIdle
    /\ CfgIdle
    /\ UsageIdle
    /\ HistIdle

\* metrics.record_at(api_key, status, at)
MetricsRecordAt ==
    /\ CallCount(calls) < MaxRequests
    /\ \E call \in MetricCalls :
          /\ metrics' = record_at(metrics, call.api_key, call.status, call.at)
          /\ calls' = Put(calls, call, IF call \in DOMAIN calls THEN calls[call] + 1 ELSE 1)
    /\ UNCHANGED <<storeVars, replVars, reqs, RATE_LIMITERS, limits, now, cfgVars,
                   usageVars, afterSignal, issued, rw>>

NextMetrics ==
    \/ MetricsRecordAt

SpecMetrics == InitMetrics /\ [][NextMetrics]_vars

\* The whole seconds since the epoch the sink takes a time for: those of
\* duration_since, none for a time before the epoch.
unix_secs(at) == IF at < 0 THEN 0 ELSE at

MetricBuckets == 0..2

\* The count snapshot(api_key) shows for a minute and a status.
SnapshotCount(m, api_key, minute, status) ==
    LET snap == snapshot(m, api_key) IN
    IF minute \notin DOMAIN snap THEN 0
    ELSE IF status \notin DOMAIN snap[minute] THEN 0
    ELSE snap[minute][status]

MetricsCountCalls ==
    /\ \A api_key \in ApiKeyStrings \cup {"never"} :
          /\ \A minute \in MetricBuckets : \A status \in MetricStatuses :
                LET mine == {call \in DOMAIN calls :
                                /\ call.api_key = api_key
                                /\ call.status = status
                                /\ 60 * minute <= unix_secs(call.at)
                                /\ unix_secs(call.at) < 60 * minute + 60}
                IN /\ SnapshotCount(metrics, api_key, minute, status)
                         = SumOver([c \in mine |-> calls[c]], mine)
                   /\ (minute \in DOMAIN snapshot(metrics, api_key)
                          /\ status \in DOMAIN snapshot(metrics, api_key)[minute]) => mine # {}
          /\ DOMAIN snapshot(metrics, api_key) \subseteq MetricBuckets
          /\ (\A call \in DOMAIN calls : call.api_key # api_key) =>
                snapshot(metrics, api_key) = EmptyMap

MetricsNeverDecrease ==
    \A api_key \in ApiKeyStrings : \A minute \in MetricBuckets : \A status \in MetricStatuses :
        SnapshotCount(metrics', api_key, minute, status)
            >= SnapshotCount(metrics, api_key, minute, status)

\* C22: snapshot(k)[m][s] is the number of record calls made so far with key
\* k, status s and a time of minute bucket m; a key never recorded has an
\* empty snapshot; and no step makes a count smaller.
C22_SnapshotCountsCalls == []MetricsCountCalls /\ [][MetricsNeverDecrease]_vars

\* Two statuses in one minute, a later minute, and a key never recorded.
C22_Witness ==
    /\ SnapshotCount(metrics, "k1", 0, 200) = 1
    /\ SnapshotCount(metrics, "k1", 0, 429) = 1
    /\ SnapshotCount(metrics, "k1", 1, 200) = 1
    /\ snapshot(metrics, "k2") = EmptyMap

(***************************************************************************)
(* SpecShutdown: the three background loops of one server and the shutdown *)
(* signal they share.  Nothing is written to the external store and no     *)
(* request arrives; the config file may change.  A loop that can go on     *)
(* does go on: its task is polled again when its sleep ends or the watched *)
(* flag changes.                                                           *)
(***************************************************************************)
\* The store load_initial builds from InitialDb.
BootStore ==
    set_max_change_id(
        UpsertAll(UpsertAll(UpsertAll(EmptyStore, InitialDb.Plans, DOMAIN InitialDb.Plans, "Plans"),
                            InitialDb.Accounts, DOMAIN InitialDb.Accounts, "Accounts"),
                  InitialDb.APIKeys, DOMAIN InitialDb.APIKeys, "APIKeys"),
        MaxChangeId(InitialDb))

\* The servers started: the replicator and the reloader wait, the usage
\* writer is about to start, one request has been recorded.
InitShutdown ==
    /\ store = BootStore
    /\ lastOp = [op |-> "new", key |-> NoKey, old |-> {}]
    /\ db = InitialDb
    /\ dbHist = InitialHist
    /\ replPc = "waiting"
    /\ shutdown = FALSE
    /\ lastPass = NoPass
    /\ synced = FALSE
    /\ reqs = << >>
    /\ RATE_LIMITERS = EmptyMap
    /\ metrics = EmptyMap
    /\ limits = EmptyMap
    /\ now = 30
    /\ config \in {c \in Configs : validate(c) = {Ok} /\ Len(c.backends) = 1}
    /\ cfgPc = "waiting"
    /\ lastReload = NoReload
    /\ peer = NoPeer
    /\ data = record(EmptyMap, 1, 1, 1, 1048576, now)
    /\ files = EmptyMap
    /\ last_flushed_hour = {}
    /\ usagePc = "start"
    /\ usageReqs = << >>
    /\ usageHist = [NoUsageHist EXCEPT !.admitted = 1, !.recorded = 1, !.hours = {0}]
    /\ HistIdle

NextShutdown ==
    \/ SignalShutdown
    \/ DeltaPass
    \/ ReplicatorExit
    \/ ReloadTick
    \/ ReloaderExit
    \/ WriterStart
    \/ FlushTick
    \/ ShutdownFlush

SpecShutdown ==
    /\ InitShutdown
    /\ [][NextShutdown]_vars
    /\ WF_vars(ReplicatorExit)
    /\ WF_vars(ReloaderExit)
    /\ WF_vars(WriterStart)
    /\ WF_vars(ShutdownFlush)

LoopsStopped == replPc = "stopped" /\ cfgPc = "stopped" /\ usagePc = "stopped"

\* The writer returned from a flush_all that drained everything and went to
\* write what it drained.
FinalFlushDone ==
    usagePc = "stopped" =>
        /\ usageHist.last.kind = "all"
        /\ data = EmptyMap
        /\ usageHist.last.before # EmptyMap => usageHist.last.attempted # {}

\* C23, as stated: once the signal is set every loop terminates, the
\* replicator and the reloader without another delta pass or reload, the
\* usage writer after one drain-all and write.
C23_LoopsExitWithoutAnotherPass ==
    /\ [](afterSignal = NoAfter /\ FinalFlushDone)
    /\ shutdown ~> LoopsStopped

\* C23, amended: the replicator and the reloader exit after at most one
\* further delta pass or reload.
C23_LoopsExitAfterAtMostOnePass ==
    /\ [](afterSignal.passes <= 1 /\ afterSignal.reloads <= 1 /\ FinalFlushDone)
    /\ shutdown ~> LoopsStopped

\* All three loops have stopped; the replicator and the reloader each ran
\* once more after the signal, and the writer wrote what it drained.
C23_Witness ==
    /\ shutdown
    /\ LoopsStopped
    /\ afterSignal = [passes |-> 1, reloads |-> 1]
    /\ usageHist.last.attempted # {}
    /\ files # EmptyMap

(***************************************************************************)
(* SpecAccountLimit: request_filter with AccountRatelimit as its Ratelimit *)
(* provider, over stores in which a key resolves or fails to resolve in    *)
(* each of the ways it can.                                                *)
(***************************************************************************)
DEFAULT_RPS_LIMIT == 1

DEFAULT_WINDOW_SECS == 1

\* SHA-256 in hex: a fixed function of the key, one to one on the keys used.
hash_api_key(api_key) ==
    IF api_key = "k1" THEN "h1" ELSE IF api_key = "k2" THEN "h2" ELSE "h0"

\* Mutant: a key without plan is not limited at all.
AccountRatelimit_limit_for_key_open(s, api_key) ==
    LET plan == get_plan_for_key(s, hash_api_key(api_key)) IN
    IF plan # {}
    THEN [quota |-> (CHOOSE p \in plan : TRUE).rps_limit, per_seconds |-> DEFAULT_WINDOW_SECS]
    ELSE [quota |-> 100, per_seconds |-> DEFAULT_WINDOW_SECS]

\* impl Ratelimit for AccountRatelimit: limit_for_key
AccountRatelimit_limit_for_key(s, api_key) ==
    LET plan == get_plan_for_key(s, hash_api_key(api_key)) IN
    IF plan # {}
    THEN [quota |-> (CHOOSE p \in plan : TRUE).rps_limit, per_seconds |-> DEFAULT_WINDOW_SECS]
    ELSE [quota |-> DEFAULT_RPS_LIMIT, per_seconds |-> DEFAULT_WINDOW_SECS]

\* Stores in which the hash of k1 resolves, was never known, belongs to a
\* key made inactive, to an account that was deleted, or to an account whose
\* plan was deleted.  The hash of k2 is unknown in all of them.
LimitStores ==
    {UsageStore,
     EmptyStore,
     upsert_api_key(UsageStore, [key_id |-> 1, account_id |-> 1,
                                 api_key_hash |-> "h1", is_active |-> FALSE]),
     delete_account(UsageStore, 1),
     delete_plan(UsageStore, 1)}

InitAccountLimit ==
    /\ store \in LimitStores
    /\ lastOp = [op |-> "new", key |-> NoKey, old |-> {}]
    /\ ReplIdle
    /\ reqs = << >>
    /\ RATE_LIMITERS = EmptyMap
    /\ metrics = EmptyMap
    /\ limits = [api_key \in ApiKeyStrings |-> AccountRatelimit_limit_for_key(store, api_key)]
    /\ now = 0
    /\ CfgIdle
    /\ UsageIdle
    /\ HistIdle

NextAccountLimit ==
    \/ RequestFilterHeader
    \/ \E i \in 1..Len(reqs) : RequestFilterLimit(i)
    \/ Tick

SpecAccountLimit == InitAccountLimit /\ [][NextAccountLimit]_vars

\* The ways the claim lists in which a hash has no plan.
Unresolved(s, hash) ==
    \/ hash \notin DOMAIN s.api_key_to_account
    \/ s.api_key_to_account[hash] \notin DOMAIN s.account_to_plan
    \/ s.account_to_plan[s.api_key_to_account[hash]] \notin DOMAIN s.plans

\* C24: a key whose hash does not resolve to a plan gets the limit of quota
\* 1 per 1 second, and a request carrying it is not answered 401 but
\* observed and admitted or refused under that limit.
C24_UnresolvedKeyGetsDefaultLimit ==
    \A api_key \in ApiKeyStrings :
        Unresolved(store, hash_api_key(api_key)) =>
            /\ AccountRatelimit_limit_for_key(store, api_key) = [quota |-> 1, per_seconds |-> 1]
            /\ \A i \in Requests :
                  reqs[i].ctx = {api_key} =>
                      /\ reqs[i].limit = [quota |-> 1, per_seconds |-> 1]
                      /\ reqs[i].window_secs = 1
                      /\ reqs[i].status # 401
                      /\ Finished(i) =>
                            /\ reqs[i].observes = 1
                            /\ Forwarded(i) <=> reqs[i].seen <= 1
                            /\ ~Forwarded(i) => reqs[i].status = 429

\* The plan of the key's account was deleted: of two requests with the key
\* in one second, one was forwarded and one answered 429.
C24_Witness ==
    /\ store = delete_plan(UsageStore, 1)
    /\ \E i, j \in Requests :
          /\ reqs[i].ctx = {"k1"} /\ reqs[j].ctx = {"k1"}
          /\ Forwarded(i)
          /\ reqs[j].pc = "responded" /\ reqs[j].status = 429

(***************************************************************************)
(* Further claims about the store's methods (checked under SpecStore).     *)
(***************************************************************************)
\* The hash is in neither forward map and neither lookup finds it.
Evicted(s, hash) ==
    /\ hash \notin DOMAIN s.api_key_to_account
    /\ hash \notin DOMAIN s.api_key_to_key_id
    /\ get_plan_for_key(s, hash) = {}
    /\ get_key_context(s, hash) = {}

\* The forward maps lead from the key's hash to the key, and the lookups
\* find what the key's account leads to.
Resolves(s, k) ==
    /\ Get(s.api_key_to_account, k.api_key_hash) = {k.account_id}
    /\ Get(s.api_key_to_key_id, k.api_key_hash) = {k.key_id}
    /\ get_plan_for_key(s, k.api_key_hash) = PlanOfAccount(s, k.account_id)
    /\ (get_key_context(s, k.api_key_hash) # {})
          = (k.account_id \in DOMAIN s.account_to_plan)

\* The last call was a rotation: upsert_api_key of a key_id that was indexed
\* under another hash.
Rotated ==
    /\ lastOp.op = "upsert_api_key"
    /\ lastOp.old # {}
    /\ lastOp.old # {lastOp.key.api_key_hash}

\* C26: after a rotation, or after delete_api_key of an indexed key_id, the
\* hash that was indexed for the key_id is in neither forward map and neither
\* lookup finds it; after a rotation to an active key the new hash resolves.
C26_StaleHashEvicted ==
    /\ (Rotated \/ lastOp.op = "delete_api_key")
          => \A old_hash \in lastOp.old : Evicted(store, old_hash)
    /\ (Rotated /\ lastOp.key.is_active) => Resolves(store, lastOp.key)

C26_Witness ==
    /\ Rotated
    /\ lastOp.key.is_active
    /\ get_plan_for_key(store, lastOp.key.api_key_hash) # {}
    /\ \A old_hash \in lastOp.old : Evicted(store, old_hash)

C26_WitnessDelete ==
    /\ lastOp.op = "delete_api_key"
    /\ lastOp.old # {}
    /\ store.api_key_to_account # EmptyMap

\* The forward maps have the same keys, and every entry key_id -> h of the
\* reverse index has h in the forward maps, leading back to key_id.
IndexesConsistent(s) ==
    /\ DOMAIN s.api_key_to_account = DOMAIN s.api_key_to_key_id
    /\ \A key_id \in DOMAIN s.key_id_to_hash :
          /\ s.key_id_to_hash[key_id] \in DOMAIN s.api_key_to_key_id
          /\ s.api_key_to_key_id[s.key_id_to_hash[key_id]] = key_id

\* delete_api_key of one key has taken hash h out of the forward maps while
\* another key_id is still indexed in reverse under h.
LostResolutionSeen ==
    /\ lastOp.op = "delete_api_key"
    /\ \E h \in lastOp.old : \E key_id \in DOMAIN store.key_id_to_hash :
          /\ key_id # lastOp.key.key_id
          /\ store.key_id_to_hash[key_id] = h
          /\ h \notin DOMAIN store.api_key_to_key_id

\* C37: in every state reachable by upsert_api_key and delete_api_key calls,
\* two key_ids carrying the same hash included, the forward maps have the
\* same key set and every reverse entry key_id -> h has h in the forward maps
\* with api_key_to_key_id[h] = key_id.
C37_IndexesConsistent == IndexesConsistent(store)

\* What holds with colliding hashes: the forward maps have the same keys,
\* and a hash of the forward maps leads to a key_id whose reverse entry is
\* that hash.
ForwardIndexesConsistent ==
    /\ DOMAIN store.api_key_to_account = DOMAIN store.api_key_to_key_id
    /\ \A h \in DOMAIN store.api_key_to_key_id :
          Get(store.key_id_to_hash, store.api_key_to_key_id[h]) = {h}

\* Two key_ids are indexed in reverse under one hash.
SharedHashSeen ==
    \E k1, k2 \in DOMAIN store.key_id_to_hash :
        /\ k1 # k2
        /\ store.key_id_to_hash[k1] = store.key_id_to_hash[k2]

\* C27: for every store state and every hash, get_key_context is present
\* exactly when get_plan_for_key is, and then its plan_id is the id of the
\* plan get_plan_for_key returns.
C27_ContextIffPlan ==
    \A hash \in Hashes :
        /\ (get_key_context(store, hash) # {}) = (get_plan_for_key(store, hash) # {})
        /\ \A ctx \in get_key_context(store, hash), plan \in get_plan_for_key(store, hash) :
              ctx[3] = plan.plan_id

\* One direction holds: a hash with a plan has a context, and with that
\* plan's id.
PlanImpliesContext ==
    \A hash \in Hashes :
        \A plan \in get_plan_for_key(store, hash) :
            \E ctx \in get_key_context(store, hash) : ctx[3] = plan.plan_id

(***************************************************************************)
(* SpecLock: the delta pass step by step under the store's RwLock, with    *)
(* readers (limit_for_key, get_key_context) taking read guards and the     *)
(* database changing.  A pass reads the database as it was when the pass   *)
(* opened its connection.                                                  *)
(***************************************************************************)
ReaderIds == {1, 2}

\* RwLock::write: granted when no guard is held.
RwLock_write(lock) ==
    IF lock.writer \/ lock.readers # {} THEN {}
    ELSE {[lock EXCEPT !.writer = TRUE]}

\* Mutant: a read guard is granted whatever the writer does.
RwLock_read_unguarded(lock, r) ==
    {[lock EXCEPT !.readers = @ \cup {r}]}

\* RwLock::read: granted when no write guard is held.
RwLock_read(lock, r) ==
    IF lock.writer THEN {}
    ELSE {[lock EXCEPT !.readers = @ \cup {r}]}

InitLock ==
    /\ store = BootStore
    /\ lastOp = [op |-> "new", key |-> NoKey, old |-> {}]
    /\ db = InitialDb
    /\ dbHist = InitialHist
    /\ replPc = "waiting"
    /\ shutdown = FALSE
    /\ lastPass = NoPass
    /\ synced = FALSE
    /\ PipeIdle
    /\ CfgIdle
    /\ UsageIdle
    /\ calls = EmptyMap
    /\ afterSignal = NoAfter
    /\ issued = NoIssue
    /\ rw = [Unlocked EXCEPT !.conn = InitialDb, !.before = BootStore]

lockFrame ==
    <<lastOp, db, dbHist, shutdown, lastPass, synced, pipeVars, cfgVars, usageVars,
      calls, afterSignal, issued>>

\* The ChangeLog entries the pass under the lock reads.
PassEntries == DeltaEntries(rw.conn, rw.before.max_change_id)

\* let mut store = self.store.write().unwrap(); load_delta opens its
\* connection and reads the cursor.
PassLock ==
    /\ replPc = "waiting"
    /\ \E lock \in RwLock_write(rw) :
          rw' = [lock EXCEPT !.conn = db, !.next = 1, !.fail_at = 0, !.before = store]
    /\ replPc' = "applying"
    /\ UNCHANGED <<store, lockFrame>>

\* One turn of load_delta's for loop: the entry is read and applied.
PassApply ==
    /\ replPc = "applying"
    /\ rw.next <= Len(PassEntries)
    /\ store' = apply_entry(store, rw.conn, PassEntries[rw.next])
    /\ rw' = [rw EXCEPT !.next = @ + 1]
    /\ UNCHANGED <<replPc, lockFrame>>

\* A `?` in load_delta returns the error: the open or prepare, or the read or
\* the single-row fetch of the next entry.
PassFail ==
    /\ replPc = "applying"
    /\ rw.next <= Max(1, Len(PassEntries))
    /\ rw' = [rw EXCEPT !.fail_at = rw.next]
    /\ replPc' = "returned"
    /\ UNCHANGED <<store, lockFrame>>

\* After the loop: if max_processed_id > last_change_id { set_max_change_id }
PassCursor ==
    /\ replPc = "applying"
    /\ rw.next > Len(PassEntries)
    /\ store' = IF Len(PassEntries) > 0
                   /\ PassEntries[Len(PassEntries)].change_id > rw.before.max_change_id
                THEN set_max_change_id(store, PassEntries[Len(PassEntries)].change_id)
                ELSE store
    /\ replPc' = "returned"
    /\ UNCHANGED <<rw, lockFrame>>

\* The end of the loop body: the write guard goes out of scope.
PassUnlock ==
    /\ replPc = "returned"
    /\ rw' = [rw EXCEPT !.writer = FALSE]
    /\ replPc' = loop_top(shutdown)
    /\ UNCHANGED <<store, lockFrame>>

\* let store = self.store.read().unwrap();
ReadLock(r) ==
    /\ r \notin rw.readers
    /\ \E lock \in RwLock_read(rw, r) : rw' = lock
    /\ UNCHANGED <<store, replPc, lockFrame>>

\* The lookup is made and the read guard goes out of scope.
ReadUnlock(r) ==
    /\ r \in rw.readers
    /\ rw' = [rw EXCEPT !.readers = @ \ {r}]
    /\ UNCHANGED <<store, replPc, lockFrame>>

NextLock ==
    \/ ExtUpdatePlan
    \/ ExtInsertAccount
    \/ ExtUpdateKey
    \/ ExtDeleteKey
    \/ PassLock
    \/ PassApply
    \/ PassFail
    \/ PassCursor
    \/ PassUnlock
    \/ \E r \in ReaderIds : ReadLock(r)
    \/ \E r \in ReaderIds : ReadUnlock(r)

SpecLock == InitLock /\ [][NextLock]_vars

PassInProgress == replPc \in {"applying", "returned"}

\* Between passes the store is what load_delta, taken as one step, makes of
\* the store and the database the last pass started from.
PassIsLoadDelta ==
    ~PassInProgress => store = load_delta(rw.before, rw.conn, rw.fail_at).store

\* A reader holding a read guard finds no pass in progress; if the last pass
\* did not fail, the store holds its whole batch and the cursor is the
\* highest change_id the pass read.
ReadersSeeWholePasses ==
    rw.readers # {} =>
        /\ ~PassInProgress
        /\ rw.fail_at = 0 =>
              /\ store = load_delta(rw.before, rw.conn, 0).store
              /\ store.max_change_id = MaxChangeId(rw.conn)

\* The store changes only under the write guard, with no read guard held.
StoreChangesUnderWriteGuard ==
    store' # store => (rw.writer /\ rw.readers = {})

\* C28: while a delta pass is in progress no reader observes the store: the
\* entries of the batch and the cursor update are applied under one write
\* guard, so a reader finds the store as a whole pass left it.
C28_PassIsOneLockSection ==
    []ReadersSeeWholePasses /\ [][StoreChangesUnderWriteGuard]_vars

\* A pass has applied the first of several entries and changed the store.
C28_Witness ==
    /\ replPc = "applying"
    /\ rw.next = 2
    /\ Len(PassEntries) >= 2
    /\ store # rw.before
    /\ rw.writer

\* A reader looks at the store a pass of several entries has left.
ReaderAfterPass ==
    /\ rw.readers # {}
    /\ rw.fail_at = 0
    /\ Len(PassEntries) >= 2
    /\ store # rw.before

(***************************************************************************)
(* The bootstrap (checked under SpecRepl).                                 *)
(***************************************************************************)
\* load_initial against a database that stays as it is while it is read.
load_initial(conn, query_ok) ==
    set_max_change_id(
        UpsertAll(UpsertAll(UpsertAll(EmptyStore, conn.Plans, DOMAIN conn.Plans, "Plans"),
                            conn.Accounts, DOMAIN conn.Accounts, "Accounts"),
                  conn.APIKeys, DOMAIN conn.APIKeys, "APIKeys"),
        IF query_ok THEN MaxChangeId(conn) ELSE 0)

\* The store mirrors the database: the cursor is the largest change_id, every
\* Plans and Accounts row is held, and a hash leads to a key exactly when an
\* active APIKeys row carries it, and then to that row's account and key id.
Mirrors(s, conn) ==
    /\ s.max_change_id = MaxChangeId(conn)
    /\ \A p \in DOMAIN conn.Plans : Get(s.plans, p) = {conn.Plans[p]}
    /\ \A a \in DOMAIN conn.Accounts :
          Get(s.account_to_plan, a) = {conn.Accounts[a].plan_id}
    /\ \A hash \in Hashes :
          LET rows == {k \in DOMAIN conn.APIKeys :
                          conn.APIKeys[k].is_active /\ conn.APIKeys[k].api_key_hash = hash}
          IN  /\ Get(s.api_key_to_key_id, hash) = rows
              /\ Get(s.api_key_to_account, hash) = {conn.APIKeys[k].account_id : k \in rows}

\* The step in which load_initial returns.
BootstrapReturns == replPc = "load_max" /\ replPc' = "waiting"

\* C29: when the bootstrap returns, the cursor is the largest change_id in
\* the ChangeLog (0 when it is empty), every Plans and Accounts row is in the
\* store, and exactly the active APIKeys rows are resolvable.
C29_BootstrapMirrorsDatabase ==
    [][BootstrapReturns => Mirrors(store', db')]_vars

\* A bootstrap that reads a database nobody writes to, and whose ChangeLog
\* maximum can be read, mirrors it: so does load_initial of every database
\* the writes lead to.
QuietBootstrapMirrors == Mirrors(load_initial(db, TRUE), db)

(***************************************************************************)
(* The api-key crate: token generation, parsing and verification.          *)
(* A string is a sequence of one-character strings, a byte an integer in   *)
(* 0..255.  SHA3-512 is modelled by the message it is fed, so two hashes   *)
(* are equal exactly when the hashed messages are.                         *)
(***************************************************************************)
CURRENT_VERSION == 1

\* The RFC 4648 base32 alphabet of data_encoding::BASE32_NOPAD, and its lower case.
UPPER ==
    <<"A", "B", "C", "D", "E", "F", "G", "H", "I", "J", "K", "L", "M", "N", "O", "P",
      "Q", "R", "S", "T", "U", "V", "W", "X", "Y", "Z", "2", "3", "4", "5", "6", "7">>

LOWER ==
    <<"a", "b", "c", "d", "e", "f", "g", "h", "i", "j", "k", "l", "m", "n", "o", "p",
      "q", "r", "s", "t", "u", "v", "w", "x", "y", "z", "2", "3", "4", "5", "6", "7">>

DIGITS == <<"0", "1", "2", "3", "4", "5", "6", "7", "8", "9">>

Occurs(seq, c) == \E i \in 1..Len(seq) : seq[i] = c
IndexIn(seq, c) == CHOOSE i \in 1..Len(seq) : seq[i] = c

\* str::to_lowercase and str::to_uppercase, on the characters a token can hold
to_lowercase(s) ==
    [i \in 1..Len(s) |-> IF Occurs(UPPER, s[i]) THEN LOWER[IndexIn(UPPER, s[i])] ELSE s[i]]

to_uppercase(s) ==
    [i \in 1..Len(s) |-> IF Occurs(LOWER, s[i]) THEN UPPER[IndexIn(LOWER, s[i])] ELSE s[i]]

\* Bit i (1 = the most significant bit of the first byte) of a byte string,
\* 0 past its end.
BitOf(bytes, i) ==
    IF i > 8 * Len(bytes) THEN 0
    ELSE (bytes[((i - 1) \div 8) + 1] \div (2 ^ (7 - ((i - 1) % 8)))) % 2

\* BASE32_NOPAD.encode: five bits per character, the last group padded with
\* zero bits, no '=' padding.
base32_encode(bytes) ==
    [j \in 1..((8 * Len(bytes) + 4) \div 5) |->
        UPPER[16 * BitOf(bytes, 5 * j - 4) + 8 * BitOf(bytes, 5 * j - 3)
              + 4 * BitOf(bytes, 5 * j - 2) + 2 * BitOf(bytes, 5 * j - 1)
              + BitOf(bytes, 5 * j) + 1]]

\* BASE32_NOPAD.decode: every character in the alphabet, a length that leaves
\* fewer than five trailing bits, and those trailing bits zero.
base32_decode(s) ==
    LET n == Len(s)
        nbytes == (5 * n) \div 8
        QBit(i) == ((IndexIn(UPPER, s[((i - 1) \div 5) + 1]) - 1)
                        \div (2 ^ (4 - ((i - 1) % 5)))) % 2
        Byte(k) == 128 * QBit(8 * k - 7) + 64 * QBit(8 * k - 6) + 32 * QBit(8 * k - 5)
                   + 16 * QBit(8 * k - 4) + 8 * QBit(8 * k - 3) + 4 * QBit(8 * k - 2)
                   + 2 * QBit(8 * k - 1) + QBit(8 * k)
    IN  IF \E j \in 1..n : ~Occurs(UPPER, s[j]) THEN {}
        ELSE IF 5 * n - 8 * nbytes >= 5 THEN {}
        ELSE IF \E i \in (8 * nbytes + 1)..(5 * n) : QBit(i) # 0 THEN {}
        ELSE {[k \in 1..nbytes |-> Byte(k)]}

\* str::split(sep): the pieces between the separators, one more than there
\* are separators.
RECURSIVE split(_, _)
split(s, sep) ==
    IF ~Occurs(s, sep) THEN <<s>>
    ELSE LET i == CHOOSE i \in 1..Len(s) : s[i] = sep /\ \A j \in 1..(i - 1) : s[j] # sep
         IN  <<SubSeq(s, 1, i - 1)>> \o split(SubSeq(s, i + 1, Len(s)), sep)

\* Display of a non-negative integer, as format!("{}") prints it
RECURSIVE format_int(_)
format_int(n) ==
    IF n < 10 THEN <<DIGITS[n + 1]>>
    ELSE format_int(n \div 10) \o <<DIGITS[(n % 10) + 1]>>

RECURSIVE digits_value(_)
digits_value(s) ==
    IF s = << >> THEN 0
    ELSE 10 * digits_value(SubSeq(s, 1, Len(s) - 1)) + IndexIn(DIGITS, s[Len(s)]) - 1

\* str::parse::<i16>: an optional sign, then decimal digits, within i16
parse_i16(s) ==
    LET signed == s # << >> /\ s[1] \in {"+", "-"}
        digits == IF signed THEN Tail(s) ELSE s
        value  == IF signed /\ s[1] = "-" THEN 0 - digits_value(digits)
                  ELSE digits_value(digits)
    IN  IF digits = << >> \/ Len(digits) > 5 THEN {}
        ELSE IF \E i \in 1..Len(digits) : ~Occurs(DIGITS, digits[i]) THEN {}
        ELSE IF value > 32767 \/ value < 0 - 32768 THEN {}
        ELSE {value}

\* i16::to_le_bytes
to_le_bytes(v) == <<v % 256, (v \div 256) % 256>>

\* compute_hash: SHA3-512 over id, version, the context id if there is one,
\* and the secret.
compute_hash(id, version, context_id, secret) ==
    id \o to_le_bytes(version)
       \o (IF context_id = {} THEN << >> ELSE CHOOSE ctx \in context_id : TRUE)
       \o secret

\* generate_with_data, with the fresh id and the random secret as inputs
generate_with_data(cfg, id, secret) ==
    LET payload == id \o secret
        encoded == to_lowercase(base32_encode(payload))
    IN  [token |-> [token |-> cfg.prefix \o <<"_", "v">> \o format_int(CURRENT_VERSION)
                                         \o <<"_">> \o encoded,
                    id |-> id],
         data  |-> [id |-> id,
                    secret_hash |-> compute_hash(id, CURRENT_VERSION, cfg.context_id, secret),
                    version |-> CURRENT_VERSION]]

ParseErr(e) == [ok |-> FALSE, err |-> e]

\* parse(token, expected_prefix)
parse(token, expected_prefix) ==
    LET parts == split(token, "_")
    IN  IF Len(parts) # 3 THEN ParseErr("InvalidFormat")
        ELSE IF parts[1] # expected_prefix THEN ParseErr("InvalidPrefix")
        ELSE IF parts[2] = << >> \/ parts[2][1] # "v" THEN ParseErr("InvalidFormat")
        ELSE LET version == parse_i16(Tail(parts[2]))
             IN  IF version = {} THEN ParseErr("InvalidFormat")
                 ELSE IF version # {CURRENT_VERSION} THEN ParseErr("UnsupportedVersion")
                 ELSE LET payload == base32_decode(to_uppercase(parts[3]))
                      IN  IF payload = {} THEN ParseErr("InvalidEncoding")
                          ELSE LET bytes == CHOOSE b \in payload : TRUE
                               IN  IF Len(bytes) # 48 THEN ParseErr("InvalidFormat")
                                   ELSE [ok |-> TRUE,
                                         id |-> SubSeq(bytes, 1, 16),
                                         version |-> CHOOSE v \in version : TRUE,
                                         secret |-> SubSeq(bytes, 17, 48)]

\* verify_parsed(parsed, stored, config)
verify_parsed(parsed, stored, cfg) ==
    IF parsed.id # stored.id THEN FALSE
    ELSE IF parsed.version # stored.version THEN FALSE
    ELSE compute_hash(parsed.id, parsed.version, cfg.context_id, parsed.secret)
            = stored.secret_hash

\* verify(token, stored, config): parse(...)? then Ok(verify_parsed(...))
verify(token, stored, cfg) ==
    LET parsed == parse(token, cfg.prefix)
    IN  IF ~parsed.ok THEN parsed
        ELSE [ok |-> TRUE, value |-> verify_parsed(parsed, stored, cfg)]

\* The inputs: three prefixes (empty, plain, holding the separator), no
\* context or one of two, and the ids and secrets the generator may draw.
Uuids == {[i \in 1..16 |-> (17 * i) % 256], [i \in 1..16 |-> 255]}
Secrets == {[i \in 1..32 |-> 0], [i \in 1..32 |-> (7 * i + 3) % 256]}
Prefixes == {<< >>, <<"l", "b">>, <<"m", "y", "_", "a", "p", "p">>}
ContextIds == {[i \in 1..16 |-> i], [i \in 1..16 |-> 255 - i]}
ApiKeyConfigs ==
    {[prefix |-> p, context_id |-> c] :
        p \in Prefixes, c \in {{}} \cup {{u} : u \in ContextIds}}

InitApiKey ==
    /\ store = EmptyStore
    /\ lastOp = [op |-> "new", key |-> NoKey, old |-> {}]
    /\ ReplIdle
    /\ PipeIdle
    /\ CfgIdle
    /\ UsageIdle
    /\ calls = EmptyMap
    /\ afterSignal = NoAfter
    /\ rw = Unlocked
    /\ \E cfg \in ApiKeyConfigs : issued = [pc |-> "config", config |-> cfg]

apiKeyFrame ==
    UNCHANGED <<storeVars, replVars, pipeVars, cfgVars, usageVars, calls, afterSignal, rw>>

\* let (token, data) = generate_with_data(&config);
ApiKeyGenerate ==
    /\ issued.pc = "config"
    /\ \E id \in Uuids, secret \in Secrets :
          LET made == generate_with_data(issued.config, id, secret)
          IN  issued' = [pc |-> "issued", config |-> issued.config,
                         token |-> made.token, data |-> made.data,
                         parsed |-> {}, verified |-> {}]
    /\ apiKeyFrame

\* parse(&token.token, &config.prefix)
ApiKeyParse ==
    /\ issued.pc = "issued"
    /\ issued' = [issued EXCEPT !.parsed = {parse(issued.token.token, issued.config.prefix)}]
    /\ apiKeyFrame

\* verify(&token.token, &data, &config)
ApiKeyVerify ==
    /\ issued.pc = "issued"
    /\ issued' = [issued EXCEPT
                     !.verified = {verify(issued.token.token, issued.data, issued.config)}]
    /\ apiKeyFrame

NextApiKey ==
    \/ ApiKeyGenerate
    \/ ApiKeyParse
    \/ ApiKeyVerify

SpecApiKey == InitApiKey /\ [][NextApiKey]_vars

\* What the round trip asks of a generated key once parse and verify ran on it.
RoundTrips ==
    /\ \A r \in issued.parsed : r.ok /\ r.id = issued.token.id
    /\ \A r \in issued.verified : r.ok /\ r.value

\* C25: for every config, with any prefix string and with or without a
\* context id, the generated token parses under config.prefix to the generated
\* id and verifies against the data returned with it.
C25_TokenRoundTrip ==
    issued.pc = "issued" => RoundTrips

\* The round trip holds of every prefix that does not hold the separator.
RoundTripWithoutSeparator ==
    (issued.pc = "issued" /\ ~Occurs(issued.config.prefix, "_")) => RoundTrips

RoundTripWithoutSeparatorSeen ==
    /\ issued.pc = "issued"
    /\ ~Occurs(issued.config.prefix, "_")
    /\ issued.config.context_id # {}
    /\ issued.parsed # {}
    /\ issued.verified # {}

====
